---- MODULE Spec2Model ----
(***************************************************************************)
(* MyLoc (Obsidian plugin): the location-resolution and rendering pipeline *)
(* of src/unnamed/part_001 (the plugin's main source, the version with     *)
(* saved places), as a state machine.                                      *)
(*                                                                         *)
(* Numbers.  A latitude or longitude is an integer count of 1e-7 degree.   *)
(* A distance is an integer count of micrometres.  Every coordinate of the *)
(* model lies on the prime meridian within a few hundred metres of (0, 0), *)
(* the position "Add place" gives a new place; on one meridian the         *)
(* haversine formula reduces to R * |dLat| (in radians), which integer     *)
(* arithmetic computes.                                                    *)
(*                                                                         *)
(* Text.  A rendered text is a sequence of string tokens (its              *)
(* concatenation is the string the code builds).  A template body is a     *)
(* sequence of atoms: "{", "}", word atoms (runs of word characters) and   *)
(* other atoms (text without braces or word characters).                   *)
(*                                                                         *)
(* Optional values (T | null) are sequences of length 0 or 1.              *)
(***************************************************************************)
EXTENDS Integers, Sequences, FiniteSets, TLC

\* ------------------------------------------------------------------ bounds

\* How many saved places / custom templates the loaded settings hold at most.
MaxPlaces == 2
MaxTemplates == 2

\* How often the user presses Save with an empty name in SavePlaceModal.
MaxEmptySaves == 1

\* How many atoms a template handed to applyTemplate on its own has at most.
MaxTemplateLen == 4

\* How many saved places findMatchingPlaces called on its own is given at most.
MaxCallPlaces == 2

\* The button "Add place" is used while fewer places than this are saved.
MaxAddedPlaces == 1

\* ----------------------------------------------------------------- helpers

Abs(x) == IF x < 0 THEN 0 - x ELSE x

Min(a, b) == IF a < b THEN a ELSE b

Range(s) == {s[i] : i \in 1..Len(s)}

None == <<>>

Some(v) == <<v>>

\* ------------------------------------------------------- number formatting

\* n written with exactly k decimal digits (leading zeros kept).
RECURSIVE Digits(_, _)
Digits(n, k) == IF k = 0 THEN "" ELSE Digits(n \div 10, k - 1) \o ToString(n % 10)

\* The fraction n of k digits as JS prints it: trailing zeros dropped, and no
\* decimal point when nothing is left.
RECURSIVE Fraction(_, _)
Fraction(n, k) ==
    IF k = 0 THEN ""
    ELSE IF n % 10 = 0 THEN Fraction(n \div 10, k - 1)
    ELSE "." \o Digits(n, k)

Pow10(k) == IF k = 6 THEN 1000000 ELSE 10000000

\* String(x) for the number x = n / 10^k (k is 6 or 7), as in `${lat}`.
numberToString(n, k) ==
    (IF n < 0 THEN "-" ELSE "")
        \o ToString(Abs(n) \div Pow10(k)) \o Fraction(Abs(n) % Pow10(k), k)

\* The magnitude of x (1e-7 degree) rounded to a count of 1e-6 degree.  No
\* coordinate of the model ends in the digit 5 (a tie no double holds).
Round6(x) == (Abs(x) + 5) \div 10

\* Number.prototype.toFixed(6): the sign, then the rounded magnitude with six
\* decimals.
toFixed6(x) ==
    (IF x < 0 THEN "-" ELSE "")
        \o ToString(Round6(x) \div 1000000) \o "." \o Digits(Round6(x) % 1000000, 6)

\* parseFloat(x.toFixed(6)), written as the number prints.
parseFloatFixed6(x) == numberToString((IF x < 0 THEN 0 - Round6(x) ELSE Round6(x)), 6)

\* ----------------------------------------------------------------- distance

EarthRadius == 6371000

\* Math.PI * 10^4.
Pi4 == 31416

\* Micrometres of arc in 1e-7 degree: R * PI / 180 * 1e-7 m.
MicronsPerUnit == ((EarthRadius \div 1000) * Pi4) \div 18000

\* haversineDistance on one meridian (or along the equator), in micrometres:
\* a = sin^2(dLat/2), so R * 2 * atan2(sqrt(a), sqrt(1-a)) = R * |dLat|.
haversineDistance(lat1, lon1, lat2, lon2) ==
    IF lon1 = lon2 THEN Abs(lat2 - lat1) * MicronsPerUnit
    ELSE IF lat1 = 0 /\ lat2 = 0 THEN Abs(lon2 - lon1) * MicronsPerUnit
    ELSE \* off the model's meridian (never evaluated): an upper estimate
         (Abs(lat2 - lat1) + Abs(lon2 - lon1)) * MicronsPerUnit

\* A radius in metres as micrometres.
MetresToMicrons(r) == r * 1000000

\* ------------------------------------------------------------ weather codes

WEATHER_CODES ==
    [c \in {0, 1, 2, 3, 45, 48, 51, 53, 55, 61, 63, 65, 71, 73, 75, 77,
            80, 81, 82, 85, 86, 95, 96, 99} |->
        CASE c = 0 -> "Clear"
          [] c = 1 -> "Mostly clear"
          [] c = 2 -> "Partly cloudy"
          [] c = 3 -> "Overcast"
          [] c \in {45, 48} -> "Foggy"
          [] c = 51 -> "Light drizzle"
          [] c = 53 -> "Drizzle"
          [] c = 55 -> "Dense drizzle"
          [] c = 61 -> "Light rain"
          [] c = 63 -> "Rain"
          [] c = 65 -> "Heavy rain"
          [] c = 71 -> "Light snow"
          [] c = 73 -> "Snow"
          [] c = 75 -> "Heavy snow"
          [] c = 77 -> "Snow grains"
          [] c = 80 -> "Light showers"
          [] c = 81 -> "Showers"
          [] c = 82 -> "Heavy showers"
          [] c = 85 -> "Light snow showers"
          [] c = 86 -> "Snow showers"
          [] c = 95 -> "Thunderstorm"
          [] OTHER -> "Thunderstorm with hail"]

\* A lookup that hands on what the table holds, "undefined" for a code it
\* does not hold.
weatherDescriptionNoFallback(code) ==
    IF code \in DOMAIN WEATHER_CODES THEN WEATHER_CODES[code] ELSE "undefined"

\* WEATHER_CODES[code] || "Unknown"
weatherDescription(code) ==
    IF code \in DOMAIN WEATHER_CODES THEN WEATHER_CODES[code] ELSE "Unknown"

\* ---------------------------------------------------------------- templates

\* The placeholder keys formatLocation supplies.
PlaceholderKeys ==
    {"lat", "lon", "coords", "address", "place", "city", "country", "mapUrl",
     "mapLink", "date", "time", "datetime", "weather", "temp"}

\* Atoms made of word characters only (\w+): the keys and some other words.
WordAtoms == PlaceholderKeys \cup {"Temp", "At", "note", "x", "a", "b", "constructor"}

IsWord(a) == a \in WordAtoms

\* The first index >= i of tpl that holds no word atom (Len(tpl) + 1 if none).
RECURSIVE WordRunEnd(_, _)
WordRunEnd(tpl, i) ==
    IF i > Len(tpl) \/ ~IsWord(tpl[i]) THEN i ELSE WordRunEnd(tpl, i + 1)

\* /\{(\w+)\}/ matches at atom i: "{", one or more word atoms, "}".
TokenAt(tpl, i) ==
    /\ tpl[i] = "{"
    /\ WordRunEnd(tpl, i + 1) > i + 1
    /\ WordRunEnd(tpl, i + 1) <= Len(tpl)
    /\ tpl[WordRunEnd(tpl, i + 1)] = "}"

\* The identifier of the token at i: its word atoms concatenated.
RECURSIVE Concat(_, _, _)
Concat(tpl, i, j) == IF i > j THEN "" ELSE tpl[i] \o Concat(tpl, i + 1, j)

TokenKey(tpl, i) == Concat(tpl, i + 1, WordRunEnd(tpl, i + 1) - 1)

\* /\{(weather|temp)\}/.test(template)
testWeatherPlaceholder(tpl) ==
    \E i \in 1..Len(tpl) : TokenAt(tpl, i) /\ TokenKey(tpl, i) \in {"weather", "temp"}

\* Names every object literal inherits from Object.prototype (two of them),
\* and the text String() makes of the inherited member.
ObjectPrototypeKeys == {"constructor", "toString"}

InheritedText(key) ==
    IF key = "constructor" THEN "function Object() { [native code] }"
    ELSE "function toString() { [native code] }"

\* values[key] || "": a missing key and an empty value both give ""; a key
\* values does not own is looked up in Object.prototype, and replace() turns
\* what the callback returns into a string.
ValueOr(values, key) ==
    IF key \in DOMAIN values THEN values[key]
    ELSE IF key \in ObjectPrototypeKeys THEN <<InheritedText(key)>>
    ELSE <<>>

\* template.replace(/\{(\w+)\}/g, (_, key) => values[key] || ""), from atom i.
RECURSIVE applyTemplateFrom(_, _, _)
applyTemplateFrom(tpl, values, i) ==
    IF i > Len(tpl) THEN <<>>
    ELSE IF TokenAt(tpl, i)
         THEN ValueOr(values, TokenKey(tpl, i))
                  \o applyTemplateFrom(tpl, values, WordRunEnd(tpl, i + 1) + 1)
         ELSE <<tpl[i]>> \o applyTemplateFrom(tpl, values, i + 1)

applyTemplate(tpl, values) == applyTemplateFrom(tpl, values, 1)

\* lines.join("\n")
RECURSIVE JoinLines(_)
JoinLines(lines) ==
    IF Len(lines) = 0 THEN <<>>
    ELSE IF Len(lines) = 1 THEN lines[1]
    ELSE lines[1] \o <<"\n">> \o JoinLines(Tail(lines))

\* ----------------------------------------------------------------- settings

BUILTIN_FORMATS == <<"full", "compact", "coords">>

DEFAULT_FRONTMATTER_FIELDS ==
    [location |-> TRUE, address |-> FALSE, datetime |-> FALSE, weather |-> FALSE]

\* language and timezone are left at their defaults throughout: the language
\* only adds a request header and the timezone only shifts the clock text.
DEFAULT_SETTINGS ==
    [format |-> "full",
     customTemplates |-> <<>>,
     savedPlaces |-> <<>>,
     mapProvider |-> "osm",
     language |-> "",
     timezone |-> "",
     tempUnit |-> "celsius",
     includeTimestamp |-> FALSE,
     includeWeather |-> FALSE,
     frontmatterFields |-> DEFAULT_FRONTMATTER_FIELDS]

\* The template "Add template" gives a new template.
NewTemplateBody == <<"{", "address", "}", "\n", "{", "coords", "}", "\n", "{", "mapLink", "}">>

\* The template a new place gets ("Add place", "Save current location as place").
NewPlaceBody == <<"{", "place", "}", "\n", "{", "coords", "}">>

\* Custom templates the persisted settings may hold, in this order: the default
\* body; one with a weather placeholder and no address placeholder; one with
\* neither.  Identifiers are as generateId makes them (eight hex digits).
TemplatePool ==
    <<[id |-> "0a1b2c3d", name |-> "New template", template |-> NewTemplateBody],
      [id |-> "4e5f6a7b", name |-> "Short",
       template |-> <<"{", "lat", "}", ", ", "{", "lon", "}", " ", "{", "temp", "}">>],
      [id |-> "8c9d0e1f", name |-> "Link",
       template |-> <<"At", " ", "{", "coords", "}", " ", "{", "mapUrl", "}">>]>>

\* Saved places the persisted settings may hold, in this order.  "Home" was
\* saved at a device fix; "Work" was added in the settings (at 0, 0) and
\* edited; "Cafe" has a small radius.
PlacePool ==
    <<[id |-> "11aa22bb", name |-> "Home", latitude |-> 10004, longitude |-> 0,
       radius |-> 200, template |-> NewPlaceBody],
      [id |-> "33cc44dd", name |-> "Work", latitude |-> 0, longitude |-> 0,
       radius |-> 500,
       template |-> <<"{", "place", "}", ": ", "{", "address", "}", " ", "{", "temp", "}">>],
      [id |-> "55ee66ff", name |-> "Cafe", latitude |-> 30000, longitude |-> 0,
       radius |-> 50, template |-> <<"{", "place", "}", " ", "{", "lat", "}">>]>>

Prefixes(pool, max) == {SubSeq(pool, 1, n) : n \in 0..Min(max, Len(pool))}

\* A format id left over from the single-template settings, or a deleted one.
StaleFormatId == "custom"

FormatIds ==
    Range(BUILTIN_FORMATS)
        \cup {TemplatePool[i].id : i \in 1..Min(MaxTemplates, Len(TemplatePool))}
        \cup {StaleFormatId}

\* ------------------------------------------------------------ environment

\* Device fixes (latitude, longitude, accuracy in metres): 111 m north of
\* (0, 0), at "Home"; and 778 m south, near no place.
GpsFixes ==
    {[latitude |-> 10004, longitude |-> 0, accuracy |-> 12],
     [latitude |-> -70007, longitude |-> 0, accuracy |-> 30]}

\* What ip-api.com answers (lat, lon): 334 m north of (0, 0).
IpFixes == {[lat |-> 30000, lon |-> 0]}

\* Why getGPSLocation rejects: no navigator.geolocation, or a
\* GeolocationPositionError (PERMISSION_DENIED, POSITION_UNAVAILABLE, TIMEOUT).
GpsErrors == {"unsupported", "denied", "unavailable", "timeout"}

\* Why getIPLocation throws: status "fail", or requestUrl rejects.
IpErrors == {"status_fail", "request_error"}

\* Nominatim answers: display_name, and city and country ("" when absent).
GeocodeResponses ==
    {[display |-> "1 Main Street, Accra, Ghana", city |-> "Accra", country |-> "Ghana"],
     [display |-> "Gulf of Guinea", city |-> "", country |-> ""]}

\* Open-Meteo answers: current_weather.temperature in tenths of a degree and
\* current_weather.weathercode.
WeatherResponses ==
    {[temperature |-> 124, weathercode |-> 2],
     [temperature |-> -35, weathercode |-> 9999]}

\* The clock: formatDateTime(new Date()).
ClockDate == "2/6/2026"

ClockTime == "02:30 PM"

ClockIso == "2026-02-06T14:30:00"

formatDateTime ==
    [date |-> ClockDate, time |-> ClockTime,
     datetime |-> ClockDate \o " " \o ClockTime, iso |-> ClockIso]

\* ------------------------------------------------------- note frontmatter

\* A note's frontmatter is a function from its keys to values; a value is a
\* sequence of strings (a scalar has one, the location pair two).  FmEmpty is
\* the value of a key written without a value ("location:"), null in JS.
FmEmpty == <<>>

FmKeys == {"location", "address", "datetime", "weather", "tags"}

ManagedKeys == {"location", "address", "datetime", "weather"}

\* frontmatter.key read in a condition: falsy when the key is absent or empty.
Truthy(fm, key) == key \in DOMAIN fm /\ fm[key] # FmEmpty

OldFields ==
    [address |-> <<"Old Street 5">>, datetime |-> <<"2020-01-01T08:00:00">>,
     weather |-> <<"3 C, Rain">>]

Restrict(f, keys) == [k \in (DOMAIN f) \cap keys |-> f[k]]

Merge(f, g) == [k \in (DOMAIN f) \cup (DOMAIN g) |-> IF k \in DOMAIN g THEN g[k] ELSE f[k]]

TagsOnly == [k \in {"tags"} |-> <<"journal">>]

\* The notes an action may run on: no location key, an empty one, or an
\* earlier pair; with or without earlier address, datetime and weather keys.
Notes ==
    {Merge(Merge(TagsOnly, loc), old) :
        loc \in {<<>>, [k \in {"location"} |-> FmEmpty],
                 [k \in {"location"} |-> <<"48.8566", "2.3522">>]},
        old \in {<<>>, OldFields}}

\* -------------------------------------------------------------------- state

\* The tasks (one per user action in flight).
Tasks == {1, 2}

VARIABLES
    settings,     \* this.settings
    frontmatter,  \* the active note's frontmatter
    editor,       \* the texts editor.replaceSelection has inserted, in order
    running,      \* how many tasks may run in this behaviour
    task,         \* per task: the action it runs and where it is
    tab,          \* the settings tab: what display() last rendered
    call          \* a call of a pure function: its arguments and its result

vars == <<settings, frontmatter, editor, running, task, tab, call>>

\* Notices.
FailedNotice == "Failed to get location"

InsertedNotice == "Location inserted"

ExistsNotice == "Location already exists. Use 'Update note location' to replace."

UpdatedNotice == "Location updated"

AddedNotice == "Location added to frontmatter"

NoViewNotice == "Open a note to insert location"

NoFileNotice == "No active file"

PlaceSavedNotice == "Place saved - customize in settings"

EnterNameNotice == "Enter a name for this place"

\* The suffix of an approximate coordinate, the separator of the one-line
\* layouts (an em dash between spaces in the source) and the unit symbols
\* (a degree sign and the letter in the source).
ApproxSuffix == " (approximate)"

Dash == " - "

CelsiusSymbol == "oC"

FahrenheitSymbol == "oF"

\* A task that has not started.  kind: "insert" (the command), "ribbon",
\* "frontmatter", "savePlace".  progress: the "Getting location..." notice.
\* gps, ip, geocode, wx: "none", "pending", "ok" or the failure.  calls: the
\* requests issued.  text: the text this task inserted.  wrote: the callback of
\* processFrontMatter made its assignments.  placeOptions, options: the items
\* of the place picker and of the format picker, once opened.  fm0, places0: the note's
\* frontmatter and the saved places when the action began (history).
IdleTask ==
    [kind |-> "none", update |-> FALSE, pc |-> "idle",
     progress |-> "none", notices |-> <<>>,
     gps |-> "none", ip |-> "none", geocode |-> "none", wx |-> "none",
     calls |-> [gps |-> 0, ip |-> 0, geocode |-> 0, weather |-> 0],
     loc |-> None, matches |-> <<>>, placeOptions |-> <<>>, place |-> None,
     options |-> <<>>, formatId |-> "", custom |-> None,
     address |-> None, weather |-> None, wxUnit |-> "",
     layout |-> "", text |-> None, wrote |-> FALSE,
     fm0 |-> <<>>, places0 |-> <<>>]

\* The settings tab before it is opened.  open: display() has run.  last: the
\* control used last, what it acted on, whether its handler changed a setting
\* and whether it called saveSettings (history).
ClosedTab ==
    [open |-> FALSE,
     last |-> [op |-> "none", id |-> "", wasDefault |-> FALSE,
               changed |-> FALSE, saved |-> FALSE]]

\* No call of a pure function.
NoCall == [fn |-> "none"]

\* A context: a task's record with the shared state it reads and writes.
Ctx(t) == [tk |-> task[t], st |-> settings, fm |-> frontmatter, ed |-> editor]

\* The next state is the context c, for task t.
Becomes(t, c) ==
    /\ task' = [task EXCEPT ![t] = c.tk]
    /\ settings' = c.st
    /\ frontmatter' = c.fm
    /\ editor' = c.ed
    /\ UNCHANGED <<running, tab, call>>

Notify(tk, msg) == [tk EXCEPT !.notices = Append(@, msg)]

Hide(tk) == [tk EXCEPT !.progress = "hidden"]

\* A catch block that hides the progress notice and reports nothing.
CatchFailureSilent(c) ==
    [c EXCEPT !.tk = [Hide(c.tk) EXCEPT !.pc = "done"]]

\* The catch block of every action: notice.hide(); new Notice("Failed ...").
CatchFailure(c) ==
    [c EXCEPT !.tk = [Notify(Hide(c.tk), FailedNotice) EXCEPT !.pc = "done"]]

\* ------------------------------------------------------------ place matching

\* m put into the sorted sequence s after every element not farther than it.
RECURSIVE InsertByDistance(_, _)
InsertByDistance(m, s) ==
    IF s = <<>> THEN <<m>>
    ELSE IF s[Len(s)].distance - m.distance <= 0 THEN Append(s, m)
    ELSE Append(InsertByDistance(m, SubSeq(s, 1, Len(s) - 1)), s[Len(s)])

\* Array.prototype.sort((a, b) => a.distance - b.distance), which is stable.
RECURSIVE SortByDistance(_)
SortByDistance(s) ==
    IF s = <<>> THEN <<>>
    ELSE InsertByDistance(s[Len(s)], SortByDistance(SubSeq(s, 1, Len(s) - 1)))

\* The number NaN, written as an integer no radius of the model is.
NaN == -2147483647

IsNaN(x) == x = NaN

\* A filter that keeps only the places strictly nearer than their radius.
WithinRadiusStrict(m) ==
    ~IsNaN(m.place.radius) /\ m.distance < MetresToMicrons(m.place.radius)

\* m.distance <= m.place.radius: false when the radius is NaN.
WithinRadius(m) ==
    ~IsNaN(m.place.radius) /\ m.distance <= MetresToMicrons(m.place.radius)

\* A findMatchingPlaces without the sort: the matches in saved order.
findMatchingPlacesUnsorted(savedPlaces, location) ==
    SelectSeq(
        [i \in 1..Len(savedPlaces) |->
            [place |-> savedPlaces[i],
             distance |-> haversineDistance(location.latitude, location.longitude,
                              savedPlaces[i].latitude, savedPlaces[i].longitude)]],
        WithinRadius)

\* savedPlaces.map(...).filter(...).sort(...)
findMatchingPlaces(savedPlaces, location) ==
    SortByDistance(SelectSeq(
        [i \in 1..Len(savedPlaces) |->
            [place |-> savedPlaces[i],
             distance |-> haversineDistance(location.latitude, location.longitude,
                              savedPlaces[i].latitude, savedPlaces[i].longitude)]],
        WithinRadius))

\* ---------------------------------------------------------------- rendering

\* A string as a text: the empty string is no token.
Text(str) == IF str = "" THEN <<>> ELSE <<str>>

getMapUrl(st, lat, lon) ==
    IF st.mapProvider = "google"
    THEN "https://www.google.com/maps?q=" \o numberToString(lat, 7) \o ","
             \o numberToString(lon, 7)
    ELSE "https://www.openstreetmap.org/?mlat=" \o numberToString(lat, 7)
             \o "&mlon=" \o numberToString(lon, 7) \o "#map=16/"
             \o numberToString(lat, 7) \o "/" \o numberToString(lon, 7)

MapLink(st, location) ==
    "[Open in Map](" \o getMapUrl(st, location.latitude, location.longitude) \o ")"

\* `${location.latitude.toFixed(6)}, ${location.longitude.toFixed(6)}`
Coords(location) == toFixed6(location.latitude) \o ", " \o toFixed6(location.longitude)

\* location.isApproximate ? " (approximate)" : ""
Approx(location) == IF location.isApproximate THEN <<ApproxSuffix>> ELSE <<>>

\* `${weather.temperature}${weather.unit}, ${weather.description}`, or "".
WeatherStr(weather) ==
    IF weather = None THEN ""
    ELSE ToString(weather[1].temperature) \o weather[1].unit \o ", "
             \o weather[1].description

\* `${weather.temperature}${weather.unit}`, or "".
TempStr(weather) ==
    IF weather = None THEN ""
    ELSE ToString(weather[1].temperature) \o weather[1].unit

\* The values formatLocation hands applyTemplate; address, place, city and
\* country differ between the saved-place branch and the custom template.
TemplateValues(st, location, weather, address, place, city, country) ==
    [k \in PlaceholderKeys |->
        CASE k = "lat" -> <<toFixed6(location.latitude)>>
          [] k = "lon" -> <<toFixed6(location.longitude)>>
          [] k = "coords" -> <<Coords(location)>> \o Approx(location)
          [] k = "address" -> Text(address)
          [] k = "place" -> Text(place)
          [] k = "city" -> Text(city)
          [] k = "country" -> Text(country)
          [] k = "mapUrl" -> <<getMapUrl(st, location.latitude, location.longitude)>>
          [] k = "mapLink" -> <<MapLink(st, location)>>
          [] k = "date" -> <<formatDateTime.date>>
          [] k = "time" -> <<formatDateTime.time>>
          [] k = "datetime" -> <<formatDateTime.datetime>>
          [] k = "weather" -> Text(WeatherStr(weather))
          [] OTHER -> Text(TempStr(weather))]

\* formatLocation, the saved-place branch: the place's template, with the
\* place's name as address and as place.
RenderPlace(st, location, place, weather) ==
    applyTemplate(place.template,
        TemplateValues(st, location, weather, place.name, place.name, "", ""))

\* address?.display || "", address?.city || "", address?.country || ""
RenderCustom(st, location, custom, address, weather) ==
    applyTemplate(custom.template,
        TemplateValues(st, location, weather,
            IF address = None THEN "" ELSE address[1].display, "",
            IF address = None THEN "" ELSE address[1].city,
            IF address = None THEN "" ELSE address[1].country))

\* The suffixes of the one-line layouts.
LineSuffixes(st, weather) ==
    (IF st.includeTimestamp THEN <<Dash, formatDateTime.datetime>> ELSE <<>>)
        \o (IF weather # None THEN <<Dash, WeatherStr(weather)>> ELSE <<>>)

\* A coords layout that appends the weather before the timestamp.
RenderCoordsWeatherFirst(st, location, weather) ==
    <<Coords(location)>> \o Approx(location)
        \o (IF weather # None THEN <<Dash, WeatherStr(weather)>> ELSE <<>>)
        \o (IF st.includeTimestamp THEN <<Dash, formatDateTime.datetime>> ELSE <<>>)

\* coords + approx, then the timestamp and the weather after a dash each.
RenderCoords(st, location, weather) ==
    <<Coords(location)>> \o Approx(location) \o LineSuffixes(st, weather)

\* A compact layout that drops the suffix when it prints an address.
RenderCompactNoSuffix(st, location, address, weather) ==
    (IF address # None
     THEN <<address[1].display, " (", Coords(location), ")">>
     ELSE <<Coords(location)>> \o Approx(location))
        \o LineSuffixes(st, weather)

\* address ? `${address.display} (${coords})${approx}` : coords + approx
RenderCompact(st, location, address, weather) ==
    (IF address # None
     THEN <<address[1].display, " (", Coords(location), ")">> \o Approx(location)
     ELSE <<Coords(location)>> \o Approx(location))
        \o LineSuffixes(st, weather)

\* A full layout with the weather line above the timestamp line.
RenderFullWeatherFirst(st, location, address, weather) ==
    JoinLines(
        (IF address # None THEN <<<<address[1].display>>>> ELSE <<>>)
            \o << <<Coords(location)>> \o Approx(location) >>
            \o (IF weather # None THEN << <<WeatherStr(weather)>> >> ELSE <<>>)
            \o (IF st.includeTimestamp THEN << <<formatDateTime.datetime>> >> ELSE <<>>)
            \o << <<MapLink(st, location)>> >>)

\* lines.push(...) under its conditions, then lines.join("\n").
RenderFull(st, location, address, weather) ==
    JoinLines(
        (IF address # None THEN <<<<address[1].display>>>> ELSE <<>>)
            \o << <<Coords(location)>> \o Approx(location) >>
            \o (IF st.includeTimestamp THEN << <<formatDateTime.datetime>> >> ELSE <<>>)
            \o (IF weather # None THEN << <<WeatherStr(weather)>> >> ELSE <<>>)
            \o << <<MapLink(st, location)>> >>)

\* A formatLocation whose last branch is the compact layout.
selectLayoutCompactFallback(tk) ==
    IF tk.place # None THEN "place"
    ELSE IF tk.custom # None THEN "custom"
    ELSE IF tk.formatId = "coords" THEN "coords"
    ELSE "compact"

\* The branch formatLocation returns from: the saved place, the custom
\* template found for the id, "coords", "compact", and "full" for the rest.
selectLayout(tk) ==
    IF tk.place # None THEN "place"
    ELSE IF tk.custom # None THEN "custom"
    ELSE IF tk.formatId = "coords" THEN "coords"
    ELSE IF tk.formatId = "compact" THEN "compact"
    ELSE "full"

\* The string formatLocation returns.
renderLocation(st, tk) ==
    CASE selectLayout(tk) = "place" ->
            RenderPlace(st, tk.loc[1], tk.place[1], tk.weather)
      [] selectLayout(tk) = "custom" ->
            RenderCustom(st, tk.loc[1], tk.custom[1], tk.address, tk.weather)
      [] selectLayout(tk) = "coords" -> RenderCoords(st, tk.loc[1], tk.weather)
      [] selectLayout(tk) = "compact" ->
            RenderCompact(st, tk.loc[1], tk.address, tk.weather)
      [] OTHER -> RenderFull(st, tk.loc[1], tk.address, tk.weather)

\* ------------------------------------------------- the steps of one action
\* Each operator below is the code a task runs from one await to the next:
\* it maps the context at the resumption to the context at the next
\* suspension (or at the end of the action).

\* requestUrl to Open-Meteo, in getWeather.
RequestWeather(c) ==
    [c EXCEPT !.tk = [c.tk EXCEPT
        !.pc = "weather", !.wx = "pending",
        !.calls = [@ EXCEPT !.weather = @ + 1],
        !.wxUnit = IF c.st.tempUnit = "fahrenheit" THEN "fahrenheit" ELSE "celsius"]]

\* An address lookup that sends the weather request along with its own.
RequestGeocodeWithWeather(c) ==
    [c EXCEPT !.tk = [c.tk EXCEPT
        !.pc = "geocode", !.geocode = "pending", !.wx = "pending",
        !.calls = [@ EXCEPT !.geocode = @ + 1, !.weather = @ + 1]]]

\* requestUrl to Nominatim, in reverseGeocode.
RequestGeocode(c) ==
    [c EXCEPT !.tk = [c.tk EXCEPT
        !.pc = "geocode", !.geocode = "pending",
        !.calls = [@ EXCEPT !.geocode = @ + 1]]]

\* editor.replaceSelection(text); new Notice("Location inserted").
InsertText(c) ==
    [c EXCEPT
        !.ed = Append(@, renderLocation(c.st, c.tk)),
        !.tk = [Notify(c.tk, InsertedNotice) EXCEPT
                   !.pc = "done",
                   !.layout = selectLayout(c.tk),
                   !.text = Some(renderLocation(c.st, c.tk))]]

\* formatLocation with a SavedPlace: weather only if the place's template
\* names it; no address lookup.
formatLocationPlace(c) ==
    IF testWeatherPlaceholder(c.tk.place[1].template)
    THEN RequestWeather(c)
    ELSE InsertText(c)

\* customTemplates.find((t) => t.id === id), or null for a built-in id.
FindTemplate(templates, id) ==
    IF id \in {"full", "compact", "coords"} THEN None
    ELSE IF \E i \in 1..Len(templates) : templates[i].id = id
         THEN Some(templates[CHOOSE i \in 1..Len(templates) :
                      /\ templates[i].id = id
                      /\ \A j \in 1..(i - 1) : templates[j].id # id])
         ELSE None

\* if (id !== "coords"): the condition of the address lookup.
needsAddress(id) == id # "coords"

\* A weather condition that looks at the setting only.
needsWeatherSettingOnly(st, tk) == st.includeWeather

\* this.settings.includeWeather ||
\*     (customTemplate && /\{(weather|temp)\}/.test(customTemplate.template))
needsWeather(st, tk) ==
    st.includeWeather \/ (tk.custom # None /\ testWeatherPlaceholder(tk.custom[1].template))

\* formatLocation with a format id, after the address lookup.
AfterGeocodeRender(c) ==
    IF needsWeather(c.st, c.tk) THEN RequestWeather(c) ELSE InsertText(c)

\* formatLocation with a format id, up to its first request.
formatLocationId(c, formatIdOrPlace) ==
    LET id == IF formatIdOrPlace # "" THEN formatIdOrPlace ELSE c.st.format
        c1 == [c EXCEPT !.tk = [c.tk EXCEPT
                  !.formatId = id,
                  !.custom = FindTemplate(c.st.customTemplates, id)]]
    IN  IF needsAddress(id) THEN RequestGeocode(c1) ELSE AfterGeocodeRender(c1)

\* insertFrontmatter: if (fields.weather) ... getWeather; else on to
\* processFrontMatter.
FrontmatterWeather(c) ==
    IF c.st.frontmatterFields.weather
    THEN RequestWeather(c)
    ELSE [c EXCEPT !.tk = [c.tk EXCEPT !.pc = "processFrontMatter"]]

\* An insertFrontmatter that looks the address up whatever place was chosen.
FrontmatterAddressAlwaysGeocodes(c) ==
    IF c.st.frontmatterFields.address
    THEN RequestGeocode(c)
    ELSE FrontmatterWeather(c)

\* insertFrontmatter after resolvePlace: if (fields.address) the place's name,
\* or reverseGeocode.
FrontmatterAddress(c) ==
    IF c.st.frontmatterFields.address
    THEN IF c.tk.place # None
         THEN FrontmatterWeather([c EXCEPT !.tk = [c.tk EXCEPT
                  !.address = Some([display |-> c.tk.place[1].name,
                                    city |-> "", country |-> ""])]])
         ELSE RequestGeocode(c)
    ELSE FrontmatterWeather(c)

\* The items of FormatPickerModal: the built-in formats, then the templates.
FormatOptions(st) ==
    BUILTIN_FORMATS \o [i \in 1..Len(st.customTemplates) |-> st.customTemplates[i].id]

\* After resolvePlace has returned tk.place.
AfterPlace(c) ==
    CASE c.tk.kind = "insert" ->
            IF c.tk.place # None
            THEN formatLocationPlace([c EXCEPT !.tk = Hide(c.tk)])
            ELSE [c EXCEPT !.tk = [Hide(c.tk) EXCEPT
                     !.pc = "formatPicker", !.options = FormatOptions(c.st)]]
      [] c.tk.kind = "ribbon" ->
            IF c.tk.place # None
            THEN formatLocationPlace([c EXCEPT !.tk = Hide(c.tk)])
            ELSE formatLocationId([c EXCEPT !.tk = Hide(c.tk)], c.st.format)
      [] OTHER -> FrontmatterAddress(c)

UseDetectedLocation == "Use detected location"

\* A place picker that lists "Use detected location" first.
PlacePickerOptionsDetectedFirst(matches) ==
    <<[place |-> None, name |-> UseDetectedLocation]>>
        \o [i \in 1..Len(matches) |->
               [place |-> Some(matches[i].place), name |-> matches[i].place.name]]

\* The items of SavedPlacePickerModal: the matches as given, then "Use
\* detected location" with no place.
PlacePickerOptions(matches) ==
    [i \in 1..Len(matches) |->
        [place |-> Some(matches[i].place), name |-> matches[i].place.name]]
        \o <<[place |-> None, name |-> UseDetectedLocation]>>

\* resolvePlace: no picker without a match.
resolvePlace(c) ==
    LET matches == findMatchingPlaces(c.st.savedPlaces, c.tk.loc[1])
    IN  IF Len(matches) = 0
        THEN AfterPlace(c)
        ELSE [c EXCEPT !.tk = [c.tk EXCEPT !.pc = "placePicker", !.matches = matches,
                                           !.placeOptions = PlacePickerOptions(matches)]]

\* After getLocation has returned tk.loc.
AfterLocation(c) ==
    IF c.tk.kind = "savePlace"
    THEN [c EXCEPT !.tk = [Hide(c.tk) EXCEPT !.pc = "savePlaceModal"]]
    ELSE resolvePlace(c)

\* getIPLocation: the request to ip-api.com.
RequestIp(tk) ==
    [tk EXCEPT !.pc = "ip", !.ip = "pending", !.calls = [@ EXCEPT !.ip = @ + 1]]

\* A getLocation that issues the IP lookup together with the device request.
StartLocationBoth(tk, supported) ==
    IF supported
    THEN [tk EXCEPT !.progress = "shown", !.pc = "gps", !.gps = "pending",
                    !.ip = "pending",
                    !.calls = [@ EXCEPT !.gps = @ + 1, !.ip = @ + 1]]
    ELSE RequestIp([tk EXCEPT !.progress = "shown", !.gps = "unsupported"])

\* new Notice("Getting location...", 0), then getLocation: getGPSLocation
\* rejects at once without navigator.geolocation, and getIPLocation follows.
StartLocation(tk, supported) ==
    IF supported
    THEN [tk EXCEPT !.progress = "shown", !.pc = "gps", !.gps = "pending",
                    !.calls = [@ EXCEPT !.gps = @ + 1]]
    ELSE RequestIp([tk EXCEPT !.progress = "shown", !.gps = "unsupported"])

\* ------------------------------------------------------------------ actions

Idle(t) == t <= running /\ task[t].pc = "idle"

\* The task t as it begins an action of this kind.
Begin(t, kind, update) ==
    [task[t] EXCEPT !.kind = kind, !.update = update,
                    !.fm0 = frontmatter, !.places0 = settings.savedPlaces]

\* The command "Insert location".
InsertCommand(t) ==
    /\ Idle(t)
    /\ \E supported \in BOOLEAN :
         Becomes(t, [Ctx(t) EXCEPT !.tk =
             StartLocation(Begin(t, "insert", FALSE), supported)])

\* The ribbon icon: without a Markdown view, a notice and nothing else.
RibbonClick(t) ==
    /\ Idle(t)
    /\ \E hasView \in BOOLEAN, supported \in BOOLEAN :
         Becomes(t, [Ctx(t) EXCEPT !.tk =
             IF hasView
             THEN StartLocation(Begin(t, "ribbon", FALSE), supported)
             ELSE [Notify(Begin(t, "ribbon", FALSE), NoViewNotice) EXCEPT !.pc = "done"]])

\* The commands "Insert location as frontmatter" (update = FALSE) and "Update
\* note location" (update = TRUE): insertFrontmatter(update).
FrontmatterCommand(t) ==
    /\ Idle(t)
    /\ \E update \in BOOLEAN, hasFile \in BOOLEAN, supported \in BOOLEAN :
         Becomes(t, [Ctx(t) EXCEPT !.tk =
             IF hasFile
             THEN StartLocation(Begin(t, "frontmatter", update), supported)
             ELSE [Notify(Begin(t, "frontmatter", update), NoFileNotice) EXCEPT
                      !.pc = "done"]])

\* The command "Save current location as place".
SavePlaceCommand(t) ==
    /\ Idle(t)
    /\ \E supported \in BOOLEAN :
         Becomes(t, [Ctx(t) EXCEPT !.tk =
             StartLocation(Begin(t, "savePlace", FALSE), supported)])

\* getCurrentPosition calls back with a position.
GpsSuccess(t) ==
    /\ task[t].pc = "gps"
    /\ \E fix \in GpsFixes :
         Becomes(t, AfterLocation([Ctx(t) EXCEPT !.tk = [task[t] EXCEPT
             !.gps = "ok",
             !.loc = Some([latitude |-> fix.latitude, longitude |-> fix.longitude,
                           accuracy |-> fix.accuracy, isApproximate |-> FALSE])]]))

\* getCurrentPosition calls back with an error: getLocation's catch goes on
\* to getIPLocation.
GpsError(t) ==
    /\ task[t].pc = "gps"
    /\ \E err \in GpsErrors \ {"unsupported"} :
         Becomes(t, [Ctx(t) EXCEPT !.tk = RequestIp([task[t] EXCEPT !.gps = err])])

\* ip-api.com answers with a position.
IpSuccess(t) ==
    /\ task[t].pc = "ip"
    /\ \E fix \in IpFixes :
         Becomes(t, AfterLocation([Ctx(t) EXCEPT !.tk = [task[t] EXCEPT
             !.ip = "ok",
             !.loc = Some([latitude |-> fix.lat, longitude |-> fix.lon,
                           accuracy |-> 5000, isApproximate |-> TRUE])]]))

\* ip-api.com answers status "fail", or the request fails: getLocation throws
\* and the action's catch block runs.
IpError(t) ==
    /\ task[t].pc = "ip"
    /\ \E err \in IpErrors :
         Becomes(t, CatchFailure([Ctx(t) EXCEPT !.tk = [task[t] EXCEPT !.ip = err]]))

\* The user picks an item of SavedPlacePickerModal: a matched place, or the
\* last item, "Use detected location" (null).
ChoosePlace(t) ==
    /\ task[t].pc = "placePicker"
    /\ \E i \in 1..Len(task[t].placeOptions) :
         Becomes(t, AfterPlace([Ctx(t) EXCEPT !.tk = [task[t] EXCEPT
             !.place = task[t].placeOptions[i].place]]))

\* The user closes SavedPlacePickerModal without picking: onChooseSuggestion
\* is not called and resolvePlace's promise stays pending.
DismissPlacePicker(t) ==
    /\ task[t].pc = "placePicker"
    /\ Becomes(t, [Ctx(t) EXCEPT !.tk = [task[t] EXCEPT !.pc = "abandoned"]])

\* The user picks a format in FormatPickerModal.
ChooseFormat(t) ==
    /\ task[t].pc = "formatPicker"
    /\ \E i \in 1..Len(task[t].options) :
         Becomes(t, formatLocationId(Ctx(t), task[t].options[i]))

\* The user closes FormatPickerModal without picking: nothing follows.
DismissFormatPicker(t) ==
    /\ task[t].pc = "formatPicker"
    /\ Becomes(t, [Ctx(t) EXCEPT !.tk = [task[t] EXCEPT !.pc = "done"]])

\* What follows the address lookup and the weather lookup.
AfterGeocode(c) ==
    IF c.tk.kind = "frontmatter" THEN FrontmatterWeather(c) ELSE AfterGeocodeRender(c)

AfterWeather(c) ==
    IF c.tk.kind = "frontmatter"
    THEN [c EXCEPT !.tk = [c.tk EXCEPT !.pc = "processFrontMatter"]]
    ELSE InsertText(c)

\* Nominatim answers with an address.
GeocodeSuccess(t) ==
    /\ task[t].pc = "geocode"
    /\ \E r \in GeocodeResponses :
         Becomes(t, AfterGeocode([Ctx(t) EXCEPT !.tk = [task[t] EXCEPT
             !.geocode = "ok", !.address = Some(r)]]))

\* A failed address lookup that ends the action in the outer catch block.
GeocodeErrorFatal(t) ==
    /\ task[t].pc = "geocode"
    /\ Becomes(t, CatchFailure([Ctx(t) EXCEPT !.tk = [task[t] EXCEPT
           !.geocode = "failed"]]))

\* Nominatim answers with an error field, or the request fails: the empty
\* catch leaves address null.
GeocodeError(t) ==
    /\ task[t].pc = "geocode"
    /\ Becomes(t, AfterGeocode([Ctx(t) EXCEPT !.tk = [task[t] EXCEPT
           !.geocode = "failed"]]))

\* Math.round of a temperature in tenths of a degree.
mathRound(tenths) == (tenths + 5) \div 10

\* The WeatherResult getWeather returns for the answer r, under the settings
\* st it reads after the answer has arrived.
WeatherResult(st, r) ==
    [temperature |-> mathRound(r.temperature),
     unit |-> IF st.tempUnit = "fahrenheit" THEN FahrenheitSymbol ELSE CelsiusSymbol,
     description |-> weatherDescription(r.weathercode)]

\* Open-Meteo answers: getWeather builds the WeatherResult with the symbol of
\* the unit the settings hold now.
WeatherSuccess(t) ==
    /\ task[t].pc = "weather"
    /\ \E r \in WeatherResponses :
         Becomes(t, AfterWeather([Ctx(t) EXCEPT !.tk = [task[t] EXCEPT
             !.wx = "ok",
             !.weather = Some(WeatherResult(settings, r))]]))

\* A getWeather that asks once more after a failure.
WeatherErrorRetries(t) ==
    /\ task[t].pc = "weather"
    /\ Becomes(t, IF task[t].calls.weather < 2
                  THEN RequestWeather(Ctx(t))
                  ELSE AfterWeather([Ctx(t) EXCEPT !.tk = [task[t] EXCEPT
                           !.wx = "failed"]]))

\* The request fails, or the answer has no current_weather: the empty catch
\* leaves weather null.
WeatherError(t) ==
    /\ task[t].pc = "weather"
    /\ Becomes(t, AfterWeather([Ctx(t) EXCEPT !.tk = [task[t] EXCEPT !.wx = "failed"]]))

\* A callback that never returns early.
RefusedNever(fm, tk) == FALSE

\* The callback insertFrontmatter hands processFrontMatter returns early when
\* the note has a location and update is off.
Refused(fm, tk) == ~tk.update /\ Truthy(fm, "location")

\* The key := value assignment on a frontmatter object.
SetKey(fm, key, value) == Merge(fm, [k \in {key} |-> value])

\* A callback that assigns the location only to a note that has none.
WriteLocationIfAbsent(fm, st, tk) ==
    IF st.frontmatterFields.location /\ ~Truthy(fm, "location")
    THEN SetKey(fm, "location", <<parseFloatFixed6(tk.loc[1].latitude),
                                  parseFloatFixed6(tk.loc[1].longitude)>>)
    ELSE fm

\* The assignments of the callback, each under its condition.
WriteLocation(fm, st, tk) ==
    IF st.frontmatterFields.location
    THEN SetKey(fm, "location", <<parseFloatFixed6(tk.loc[1].latitude),
                                  parseFloatFixed6(tk.loc[1].longitude)>>)
    ELSE fm

WriteAddress(fm, st, tk) ==
    IF st.frontmatterFields.address /\ tk.address # None
    THEN SetKey(fm, "address", <<tk.address[1].display>>)
    ELSE fm

\* A callback that stamps the note whatever the datetime setting is.
WriteDatetimeAlways(fm, st, tk) == SetKey(fm, "datetime", <<formatDateTime.iso>>)

WriteDatetime(fm, st, tk) ==
    IF st.frontmatterFields.datetime
    THEN SetKey(fm, "datetime", <<formatDateTime.iso>>)
    ELSE fm

WriteWeather(fm, st, tk) ==
    IF st.frontmatterFields.weather /\ tk.weather # None
    THEN SetKey(fm, "weather", <<WeatherStr(tk.weather)>>)
    ELSE fm

WriteFields(fm, st, tk) ==
    WriteWeather(WriteDatetime(WriteAddress(WriteLocation(fm, st, tk), st, tk), st, tk), st, tk)

\* An insertFrontmatter that looks for an earlier location in the note as it
\* was when the action began, and not inside the callback.
ProcessFrontMatterStale(t) ==
    /\ task[t].pc = "processFrontMatter"
    /\ LET c == Ctx(t)
           refused == Refused(c.tk.fm0, c.tk)
           tk1 == IF refused
                  THEN Notify(Hide(c.tk), ExistsNotice)
                  ELSE [c.tk EXCEPT !.wrote = TRUE]
       IN  Becomes(t, [c EXCEPT
               !.fm = IF refused THEN c.fm ELSE WriteFields(c.fm, c.st, c.tk),
               !.tk = [Notify(Hide(tk1), IF c.tk.update THEN UpdatedNotice ELSE AddedNotice)
                          EXCEPT !.pc = "done"]])

\* processFrontMatter runs the callback on the note's frontmatter and stores
\* the result; then notice.hide() and the closing notice.  (The host call is
\* taken to succeed.)
ProcessFrontMatter(t) ==
    /\ task[t].pc = "processFrontMatter"
    /\ LET c == Ctx(t)
           refused == Refused(c.fm, c.tk)
           tk1 == IF refused
                  THEN Notify(Hide(c.tk), ExistsNotice)
                  ELSE [c.tk EXCEPT !.wrote = TRUE]
       IN  Becomes(t, [c EXCEPT
               !.fm = IF refused THEN c.fm ELSE WriteFields(c.fm, c.st, c.tk),
               !.tk = [Notify(Hide(tk1), IF c.tk.update THEN UpdatedNotice ELSE AddedNotice)
                          EXCEPT !.pc = "done"]])

\* Names typed into SavePlaceModal (trimmed) and identifiers generateId makes.
PlaceNames == {"Gym"}

GeneratedIds == {"77aa88bb", "11aa22bb"}

\* Save in SavePlaceModal with a name: the place is appended and saved.
SavePlace(t) ==
    /\ task[t].pc = "savePlaceModal"
    /\ \E name \in PlaceNames, id \in GeneratedIds :
         Becomes(t, [Ctx(t) EXCEPT
             !.st = [settings EXCEPT !.savedPlaces = Append(@,
                         [id |-> id, name |-> name,
                          latitude |-> task[t].loc[1].latitude,
                          longitude |-> task[t].loc[1].longitude,
                          radius |-> 200, template |-> NewPlaceBody])],
             !.tk = [Notify(task[t], PlaceSavedNotice) EXCEPT !.pc = "done"]])

Count(seq, x) == Cardinality({i \in 1..Len(seq) : seq[i] = x})

\* Save in SavePlaceModal with an empty name: a notice, and the modal stays.
SaveWithoutName(t) ==
    /\ task[t].pc = "savePlaceModal"
    /\ Count(task[t].notices, EnterNameNotice) < MaxEmptySaves
    /\ Becomes(t, [Ctx(t) EXCEPT !.tk = Notify(task[t], EnterNameNotice)])

\* SavePlaceModal closed without saving.
CloseSavePlaceModal(t) ==
    /\ task[t].pc = "savePlaceModal"
    /\ Becomes(t, [Ctx(t) EXCEPT !.tk = [task[t] EXCEPT !.pc = "done"]])

\* ------------------------------------------------------------ specification

\* The settings loadSettings may find persisted.  The output settings vary
\* with the frontmatter fields at their defaults, and the frontmatter fields
\* vary with the output settings at their defaults: no action reads both.
OutputSettings ==
    {[DEFAULT_SETTINGS EXCEPT
         !.format = f, !.customTemplates = ts, !.savedPlaces = ps,
         !.includeTimestamp = its, !.includeWeather = iw, !.tempUnit = u] :
        f \in FormatIds, ts \in Prefixes(TemplatePool, MaxTemplates),
        ps \in Prefixes(PlacePool, MaxPlaces), its \in BOOLEAN, iw \in BOOLEAN,
        u \in {"celsius", "fahrenheit"}}

FrontmatterSettings ==
    {[DEFAULT_SETTINGS EXCEPT
         !.frontmatterFields = ff, !.savedPlaces = ps, !.mapProvider = "google"] :
        ff \in [{"location", "address", "datetime", "weather"} -> BOOLEAN],
        ps \in Prefixes(PlacePool, MaxPlaces)}

Init ==
    /\ \/ settings \in OutputSettings /\ frontmatter = TagsOnly
       \/ settings \in FrontmatterSettings /\ frontmatter \in Notes
    /\ editor = <<>>
    /\ running = 1
    /\ task = [t \in Tasks |-> IdleTask]
    /\ tab = ClosedTab
    /\ call = NoCall

Next ==
    \E t \in Tasks :
        \/ InsertCommand(t)
        \/ RibbonClick(t)
        \/ FrontmatterCommand(t)
        \/ SavePlaceCommand(t)
        \/ GpsSuccess(t)
        \/ GpsError(t)
        \/ IpSuccess(t)
        \/ IpError(t)
        \/ ChoosePlace(t)
        \/ DismissPlacePicker(t)
        \/ ChooseFormat(t)
        \/ DismissFormatPicker(t)
        \/ GeocodeSuccess(t)
        \/ GeocodeError(t)
        \/ WeatherSuccess(t)
        \/ WeatherError(t)
        \/ ProcessFrontMatter(t)
        \/ SavePlace(t)
        \/ SaveWithoutName(t)
        \/ CloseSavePlaceModal(t)

Spec == Init /\ [][Next]_vars

\* What the world answers to task t: a callback of a request in flight, the
\* host running the frontmatter callback, or the user acting on a prompt.
Answer(t) ==
    \/ GpsSuccess(t)
    \/ GpsError(t)
    \/ IpSuccess(t)
    \/ IpError(t)
    \/ ChoosePlace(t)
    \/ DismissPlacePicker(t)
    \/ ChooseFormat(t)
    \/ DismissFormatPicker(t)
    \/ GeocodeSuccess(t)
    \/ GeocodeError(t)
    \/ WeatherSuccess(t)
    \/ WeatherError(t)
    \/ ProcessFrontMatter(t)
    \/ SavePlace(t)
    \/ CloseSavePlaceModal(t)

\* The same program on fewer settings: the default format and the first unit
\* with any saved places and either weather setting, or every frontmatter
\* field with any saved places.
LiveInit ==
    /\ Init
    /\ \/ /\ settings \in OutputSettings
          /\ settings.format = "full"
          /\ settings.customTemplates = <<>>
          /\ settings.includeTimestamp
          /\ settings.tempUnit = "celsius"
       \/ /\ settings \in FrontmatterSettings
          /\ \A k \in DOMAIN settings.frontmatterFields : settings.frontmatterFields[k]

\* Every request is answered and every prompt is acted on, in the end.
LiveSpec == LiveInit /\ [][Next]_vars /\ \A t \in Tasks : WF_vars(Answer(t))

\* Two frontmatter actions at once on one note that has no location, with
\* "include location" enabled: every field enabled or the location alone, and
\* no saved place or the first of the pool.
ConcurrentInit ==
    /\ settings \in {[DEFAULT_SETTINGS EXCEPT
                          !.frontmatterFields = [k \in DOMAIN @ |-> k = "location" \/ all],
                          !.savedPlaces = ps] :
                         all \in BOOLEAN, ps \in Prefixes(PlacePool, 1)}
    /\ frontmatter \in {TagsOnly, Merge(TagsOnly, OldFields)}
    /\ editor = <<>>
    /\ running = 2
    /\ task = [t \in Tasks |-> IdleTask]
    /\ tab = ClosedTab
    /\ call = NoCall

ConcurrentNext ==
    \E t \in Tasks :
        \/ FrontmatterCommand(t)
        \/ GpsSuccess(t)
        \/ GpsError(t)
        \/ IpSuccess(t)
        \/ IpError(t)
        \/ ChoosePlace(t)
        \/ DismissPlacePicker(t)
        \/ GeocodeSuccess(t)
        \/ GeocodeError(t)
        \/ WeatherSuccess(t)
        \/ WeatherError(t)
        \/ ProcessFrontMatter(t)

ConcurrentSpec == ConcurrentInit /\ [][ConcurrentNext]_vars

\* ------------------------------------------- the pure functions on their own

\* All sequences over the set S of length n, and of length at most n.
RECURSIVE SeqsOfLen(_, _)
SeqsOfLen(S, n) ==
    IF n = 0 THEN {<<>>}
    ELSE {Append(q, x) : q \in SeqsOfLen(S, n - 1), x \in S}

SeqsUpTo(S, n) == UNION {SeqsOfLen(S, k) : k \in 0..n}

\* Templates applyTemplate is called with: every sequence of these atoms up
\* to the bound, and "{a}{b}".
TemplateAtoms == {"{", "}", "a", "b", "-", "constructor"}

TemplateInputs ==
    SeqsUpTo(TemplateAtoms, MaxTemplateLen) \cup {<<"{", "a", "}", "{", "b", "}">>}

\* Values objects: {}, {a: "x"}, {a: "x", b: ""}, {a: "{b}", ab: "y"}.
ValuesInputs ==
    {<<>>,
     [k \in {"a"} |-> <<"x">>],
     [k \in {"a", "b"} |-> IF k = "a" THEN <<"x">> ELSE <<>>],
     [k \in {"a", "ab"} |-> IF k = "a" THEN <<"{", "b", "}">> ELSE <<"y">>]}

ApplyTemplateInputs ==
    {[fn |-> "applyTemplate", template |-> tpl, values |-> v, result |-> None] :
        tpl \in TemplateInputs, v \in ValuesInputs}

\* Saved places findMatchingPlaces is called with: centres on the meridian,
\* and radii that are NaN, negative, zero and positive (in metres).
PlaceInputs ==
    {[id |-> "99aa00bb", name |-> "Spot", latitude |-> lat, longitude |-> 0,
      radius |-> r, template |-> NewPlaceBody] :
        lat \in {0, 10004, 30000}, r \in {NaN, -100, 0, 200, 1500}}

\* Fixes: at the first centre, at the second, and 778 m south.
LocationInputs ==
    {[latitude |-> lat, longitude |-> 0, accuracy |-> 12, isApproximate |-> FALSE] :
        lat \in {0, 10004, -70007}}

FindMatchingPlacesInputs ==
    {[fn |-> "findMatchingPlaces", savedPlaces |-> ps, location |-> loc,
      result |-> None] :
        ps \in SeqsUpTo(PlaceInputs, MaxCallPlaces), loc \in LocationInputs}

\* Answers getWeather is called back with: every code of the table, and
\* codes the table does not hold.
WeatherCodeInputs == DOMAIN WEATHER_CODES \cup {-1, 4, 100, 9999}

GetWeatherInputs ==
    {[fn |-> "getWeather",
      response |-> [temperature |-> tenths, weathercode |-> code],
      result |-> None] :
        tenths \in {124, -35}, code \in WeatherCodeInputs}

\* this.getWeather(lat, lon) returns, the request answered.
GetWeatherCall ==
    /\ call.fn = "getWeather"
    /\ call.result = None
    /\ call' = [call EXCEPT !.result = Some(WeatherResult(settings, call.response))]
    /\ UNCHANGED <<settings, frontmatter, editor, running, task, tab>>

\* this.findMatchingPlaces(location) returns.
FindMatchingPlacesCall ==
    /\ call.fn = "findMatchingPlaces"
    /\ call.result = None
    /\ call' = [call EXCEPT
                   !.result = Some(findMatchingPlaces(call.savedPlaces, call.location))]
    /\ UNCHANGED <<settings, frontmatter, editor, running, task, tab>>

\* this.applyTemplate(template, values) returns.
ApplyTemplateCall ==
    /\ call.fn = "applyTemplate"
    /\ call.result = None
    /\ call' = [call EXCEPT !.result = Some(applyTemplate(call.template, call.values))]
    /\ UNCHANGED <<settings, frontmatter, editor, running, task, tab>>

FunctionInit ==
    /\ settings = DEFAULT_SETTINGS
    /\ frontmatter = TagsOnly
    /\ editor = <<>>
    /\ running = 0
    /\ task = [t \in Tasks |-> IdleTask]
    /\ tab = ClosedTab
    /\ call \in ApplyTemplateInputs \cup FindMatchingPlacesInputs \cup GetWeatherInputs

FunctionNext ==
    \/ ApplyTemplateCall
    \/ FindMatchingPlacesCall
    \/ GetWeatherCall

FunctionSpec == FunctionInit /\ [][FunctionNext]_vars

\* ---------------------------------------------------------- the settings tab

\* validIds in display(): the built-in ids, then the ids of the templates.
ValidFormatIds(st) ==
    Range(BUILTIN_FORMATS)
        \cup {st.customTemplates[i].id : i \in 1..Len(st.customTemplates)}

\* A display() that leaves the format as it finds it.
displayKeepsFormat(st) == st

\* MyLocSettingTab.display(), as far as it changes the settings: a format id
\* that no longer exists falls back to "full" (and is saved).
display(st) ==
    IF st.format \in ValidFormatIds(st) THEN st ELSE [st EXCEPT !.format = "full"]

\* What a control of the settings tab leaves behind, having called
\* saveSettings or not.
TabBecomesSaved(st, op, id, wasDefault, saved) ==
    /\ settings' = st
    /\ tab' = [open |-> op # "close",
               last |-> [op |-> op, id |-> id, wasDefault |-> wasDefault,
                         changed |-> st # settings, saved |-> saved]]
    /\ UNCHANGED <<frontmatter, editor, running, task, call>>

\* The same for the controls that always save; display() alone saves when it
\* replaced the format, and hide() never does.
TabBecomes(st, op, id, wasDefault) ==
    TabBecomesSaved(st, op, id, wasDefault,
                    IF op = "open" THEN st # settings ELSE op # "close")

\* The user opens the plugin's settings tab: display().
OpenSettingsTab ==
    /\ ~tab.open
    /\ TabBecomes(display(settings), "open", "", FALSE)

\* The user leaves the settings tab: hide().
CloseSettingsTab ==
    /\ tab.open
    /\ TabBecomes(settings, "close", "", FALSE)

\* The "Default format" dropdown: onChange with one of its options, which are
\* the built-in ids and the ids of the templates display() found.
SelectFormat ==
    /\ tab.open
    /\ \E value \in ValidFormatIds(settings) :
         TabBecomes([settings EXCEPT !.format = value], "select", value, FALSE)

\* The button "Add template": push, save, display().
AddTemplate ==
    /\ tab.open
    /\ Len(settings.customTemplates) < MaxTemplates
    /\ \E id \in GeneratedIds :
         TabBecomes(display([settings EXCEPT !.customTemplates = Append(@,
                        [id |-> id, name |-> "New template",
                         template |-> NewTemplateBody])]),
                    "add", id, FALSE)

\* seq.splice(i, 1)
Splice(seq, i) == SubSeq(seq, 1, i - 1) \o SubSeq(seq, i + 1, Len(seq))

\* The trash button of template i: splice, the format back to "full" if it
\* was this template's id, save, display().
DeleteTemplate ==
    /\ tab.open
    /\ \E i \in 1..Len(settings.customTemplates) :
         LET tmpl == settings.customTemplates[i]
             wasDefault == settings.format = tmpl.id
         IN  TabBecomes(display([settings EXCEPT
                            !.customTemplates = Splice(@, i),
                            !.format = IF wasDefault THEN "full" ELSE @]),
                        "delete", tmpl.id, wasDefault)

\* The settings the tab may find: any format id, with or without templates.
TabSettings ==
    {[DEFAULT_SETTINGS EXCEPT !.format = f, !.customTemplates = ts] :
        f \in FormatIds, ts \in Prefixes(TemplatePool, MaxTemplates)}

SettingsInit ==
    /\ settings \in TabSettings
    /\ frontmatter = TagsOnly
    /\ editor = <<>>
    /\ running = 0
    /\ task = [t \in Tasks |-> IdleTask]
    /\ tab = ClosedTab
    /\ call = NoCall

SettingsNext ==
    \/ OpenSettingsTab
    \/ CloseSettingsTab
    \/ SelectFormat
    \/ AddTemplate
    \/ DeleteTemplate

SettingsSpec == SettingsInit /\ [][SettingsNext]_vars

\* --------------------------------------- saved places in the settings tab

DecimalDigits == {"0", "1", "2", "3", "4", "5", "6", "7", "8", "9"}

HexDigits == DecimalDigits \cup {"a", "b", "c", "d", "e", "f"}

DigitValue(ch) ==
    CASE ch = "0" -> 0 [] ch = "1" -> 1 [] ch = "2" -> 2 [] ch = "3" -> 3
      [] ch = "4" -> 4 [] ch = "5" -> 5 [] ch = "6" -> 6 [] ch = "7" -> 7
      [] ch = "8" -> 8 [] ch = "9" -> 9 [] ch = "a" -> 10 [] ch = "b" -> 11
      [] ch = "c" -> 12 [] ch = "d" -> 13 [] ch = "e" -> 14 [] OTHER -> 15

\* The index after the run of characters of the set D that starts at i.
RECURSIVE DigitRun(_, _, _)
DigitRun(str, i, D) ==
    IF i <= Len(str) /\ str[i] \in D THEN DigitRun(str, i + 1, D) ELSE i

\* The value of the digits str[i..j-1] in the radix.
RECURSIVE Numeral(_, _, _, _)
Numeral(str, i, j, radix) ==
    IF j <= i THEN 0
    ELSE Numeral(str, i, j - 1, radix) * radix + DigitValue(str[j - 1])

\* parseInt(value): leading blanks, a sign, "0x" for radix 16, then the
\* longest run of digits; NaN without a digit.  What follows is ignored.
parseInt(str) ==
    LET a == DigitRun(str, 1, {" "})
        signed == a <= Len(str) /\ str[a] \in {"-", "+"}
        b == IF signed THEN a + 1 ELSE a
        hex == b + 1 <= Len(str) /\ str[b] = "0" /\ str[b + 1] \in {"x", "X"}
        c == IF hex THEN b + 2 ELSE b
        e == DigitRun(str, c, IF hex THEN HexDigits ELSE DecimalDigits)
        n == Numeral(str, c, e, IF hex THEN 16 ELSE 10)
    IN  IF e = c THEN NaN
        ELSE IF signed /\ str[a] = "-" THEN -n ELSE n

\* A valid floating-point number, as an input of type "number" takes it:
\* -? digits (. digits)? or -? . digits, then ([eE] [-+]? digits)?
IsValidFloatingPoint(str) ==
    LET a == IF Len(str) >= 1 /\ str[1] = "-" THEN 2 ELSE 1
        b == DigitRun(str, a, DecimalDigits)
        dot == b <= Len(str) /\ str[b] = "."
        c == IF dot THEN DigitRun(str, b + 1, DecimalDigits) ELSE b
        exp == c <= Len(str) /\ str[c] \in {"e", "E"}
        x == IF c + 1 <= Len(str) /\ str[c + 1] \in {"-", "+"} THEN c + 2 ELSE c + 1
        y == DigitRun(str, x, DecimalDigits)
    IN  /\ b > a \/ dot
        /\ dot => c > b + 1
        /\ IF exp THEN y > x /\ y = Len(str) + 1 ELSE c = Len(str) + 1

\* The value of the radius input (its type attribute is set to "number"):
\* the text typed, or "" when that is not a valid floating-point number.
numberInputValue(typed) == IF IsValidFloatingPoint(typed) THEN typed ELSE <<>>

\* A radius handler that takes any number.
RadiusAcceptedAnyNumber(num) == ~IsNaN(num)

\* if (!isNaN(num) && num > 0)
RadiusAccepted(num) == ~IsNaN(num) /\ num > 0

\* Texts typed into a radius input, with what each denotes: abc, the empty
\* text, 12abc, 0, -5, 0.5, 300.
RadiusTexts ==
    {[typed |-> <<"a", "b", "c">>, number |-> FALSE, positive |-> FALSE],
     [typed |-> <<>>, number |-> FALSE, positive |-> FALSE],
     [typed |-> <<"1", "2", "a", "b", "c">>, number |-> FALSE, positive |-> FALSE],
     [typed |-> <<"0">>, number |-> TRUE, positive |-> FALSE],
     [typed |-> <<"-", "5">>, number |-> TRUE, positive |-> FALSE],
     [typed |-> <<"0", ".", "5">>, number |-> TRUE, positive |-> TRUE],
     [typed |-> <<"3", "0", "0">>, number |-> TRUE, positive |-> TRUE]}

\* What a typed text denotes, for the history.
Denotes(text) ==
    IF text.number /\ text.positive THEN "a number above zero" ELSE "no number above zero"

\* The radius input of place i: onChange with the input's value.
EditRadiusOf(i, text) ==
    /\ tab.open
    /\ i \in 1..Len(settings.savedPlaces)
    /\ LET num == parseInt(numberInputValue(text.typed))
       IN  TabBecomesSaved(
               IF RadiusAccepted(num)
               THEN [settings EXCEPT !.savedPlaces[i].radius = num]
               ELSE settings,
               "radius", Denotes(text), FALSE, RadiusAccepted(num))

EditRadius ==
    \E i \in 1..Len(settings.savedPlaces), text \in RadiusTexts : EditRadiusOf(i, text)

\* The button "Add place": push, save, display().
AddPlace ==
    /\ tab.open
    /\ Len(settings.savedPlaces) < MaxAddedPlaces
    /\ \E id \in GeneratedIds :
         TabBecomes(display([settings EXCEPT !.savedPlaces = Append(@,
                        [id |-> id, name |-> "New place", latitude |-> 0,
                         longitude |-> 0, radius |-> 200,
                         template |-> NewPlaceBody])]),
                    "addPlace", "", FALSE)

\* The trash button of place i: splice, save, display().
DeletePlace ==
    /\ tab.open
    /\ \E i \in 1..Len(settings.savedPlaces) :
         TabBecomes(display([settings EXCEPT !.savedPlaces = Splice(@, i)]),
                    "deletePlace", "", FALSE)

\* The settings the places are edited from: the defaults, no place saved yet.
PlacesInit ==
    /\ settings = DEFAULT_SETTINGS
    /\ frontmatter = TagsOnly
    /\ editor = <<>>
    /\ running = 1
    /\ task = [t \in Tasks |-> IdleTask]
    /\ tab = ClosedTab
    /\ call = NoCall

\* The command "Save current location as place" and the controls of the
\* settings tab that add, edit and delete places.
PlacesNext ==
    \/ OpenSettingsTab
    \/ CloseSettingsTab
    \/ AddPlace
    \/ EditRadius
    \/ DeletePlace
    \/ \E t \in Tasks :
          \/ SavePlaceCommand(t)
          \/ GpsSuccess(t)
          \/ GpsError(t)
          \/ IpSuccess(t)
          \/ IpError(t)
          \/ SavePlace(t)
          \/ SaveWithoutName(t)
          \/ CloseSavePlaceModal(t)

PlacesSpec == PlacesInit /\ [][PlacesNext]_vars

\* The operations that call generateId: "Add template", "Add place" and the
\* command "Save current location as place".
IdsNext ==
    \/ OpenSettingsTab
    \/ AddTemplate
    \/ AddPlace
    \/ \E t \in Tasks :
          \/ SavePlaceCommand(t)
          \/ GpsSuccess(t)
          \/ GpsError(t)
          \/ IpSuccess(t)
          \/ IpError(t)
          \/ SavePlace(t)
          \/ SaveWithoutName(t)
          \/ CloseSavePlaceModal(t)

IdsSpec == PlacesInit /\ [][IdsNext]_vars

\* ------------------------------------- settings edited while an action runs

\* The "Temperature unit" dropdown: onChange with the other unit.
SelectTempUnit ==
    /\ tab.open
    /\ \E value \in {"celsius", "fahrenheit"} \ {settings.tempUnit} :
         TabBecomes([settings EXCEPT !.tempUnit = value], "tempUnit", value, FALSE)

\* The actions of the plugin, with the settings tab opened and the unit
\* changed at any moment in between.
InterleavedNext ==
    \/ Next
    \/ OpenSettingsTab
    \/ CloseSettingsTab
    \/ SelectTempUnit

InterleavedSpec == LiveInit /\ [][InterleavedNext]_vars

\* =================================================================== claims

HasNotice(tk, msg) == msg \in Range(tk.notices)

\* The fix came from the device / from the IP lookup.
FromGps(tk) == tk.gps = "ok"

FromIp(tk) == tk.ip = "ok"

\* ----------------------------------------------------------------------- C1
\* C1: when the device attempt and the IP lookup both fail, whatever the two
\* failures are, the action is over with the one notice "Failed to get
\* location" (the progress notice hidden), and nothing else has happened: no
\* text inserted, the frontmatter and the saved places as they were, no
\* address request and no weather request.
C1_FailureIsClean ==
    \A t \in Tasks :
        (task[t].gps \in GpsErrors /\ task[t].ip \in IpErrors) =>
            /\ task[t].pc = "done"
            /\ task[t].notices = <<FailedNotice>>
            /\ task[t].progress = "hidden"
            /\ task[t].text = None
            /\ editor = <<>>
            /\ ~task[t].wrote
            /\ frontmatter = task[t].fm0
            /\ settings.savedPlaces = task[t].places0
            /\ task[t].calls.geocode = 0
            /\ task[t].calls.weather = 0

C1_Witness ==
    \E t \in Tasks :
        /\ task[t].kind = "savePlace"
        /\ task[t].gps = "timeout"
        /\ task[t].ip = "status_fail"
        /\ task[t].pc = "done"

\* ----------------------------------------------------------------------- C2
\* C2: in getLocation the IP lookup is issued only once the device attempt
\* has failed, once for each way it can fail, and never while the device
\* attempt is pending or after it succeeded.
C2_IpOnlyAfterGpsFailure ==
    \A t \in Tasks :
        /\ (task[t].calls.ip > 0 \/ task[t].ip # "none") => task[t].gps \in GpsErrors
        /\ task[t].gps \in GpsErrors => task[t].calls.ip = 1
        /\ task[t].gps \in {"none", "pending", "ok"} =>
               task[t].calls.ip = 0 /\ task[t].ip = "none"
        /\ task[t].gps = "unsupported" => task[t].calls.gps = 0

C2_Witness ==
    \E t \in Tasks :
        /\ task[t].gps = "denied"
        /\ task[t].pc = "ip"
        /\ task[t].calls.ip = 1
        /\ task[t].calls.gps = 1

\* ----------------------------------------------------------------------- C3
\* The token after the coordinate text at i, skipping the ")" the compact
\* layout puts between them, is the suffix.
SuffixFollows(text, i) ==
    \/ i + 1 <= Len(text) /\ text[i + 1] = ApproxSuffix
    \/ i + 2 <= Len(text) /\ text[i + 1] = ")" /\ text[i + 2] = ApproxSuffix

BuiltinLayouts == {"coords", "compact", "full"}

\* C3: a fix is approximate exactly when the IP lookup gave it (its accuracy
\* is then 5000) and never when the device gave it; and in an inserted text
\* of any layout, each coordinate text "lat, lon" is followed by the suffix
\* " (approximate)" exactly when the fix is approximate, the suffix stands
\* nowhere else, and the built-in layouts always print the coordinate text.
C3_ApproximateIffIp ==
    \A t \in Tasks :
        /\ task[t].loc # None =>
               /\ task[t].loc[1].isApproximate <=> FromIp(task[t])
               /\ FromGps(task[t]) => ~task[t].loc[1].isApproximate
               /\ task[t].loc[1].isApproximate => task[t].loc[1].accuracy = 5000
        /\ task[t].text # None =>
               LET text == task[t].text[1]
                   loc == task[t].loc[1]
               IN  /\ \A i \in 1..Len(text) :
                          text[i] = Coords(loc) =>
                              (SuffixFollows(text, i) <=> loc.isApproximate)
                   /\ ApproxSuffix \in Range(text) =>
                          loc.isApproximate /\ Coords(loc) \in Range(text)
                   /\ task[t].layout \in BuiltinLayouts => Coords(loc) \in Range(text)

C3_Witness ==
    \E t \in Tasks :
        /\ task[t].text # None
        /\ task[t].layout = "compact"
        /\ task[t].address # None
        /\ task[t].loc[1].isApproximate
        /\ ApproxSuffix \in Range(task[t].text[1])

\* ----------------------------------------------------------------------- C4
\* The values of a place's template with the place's name as {address} and
\* as {place}.
NamedValues(st, tk) ==
    [TemplateValues(st, tk.loc[1], tk.weather, "", "", "", "") EXCEPT
        !["address"] = <<tk.place[1].name>>, !["place"] = <<tk.place[1].name>>]

\* C4: once a matched saved place is chosen, no reverse-geocoding request is
\* issued in that action, in the insert paths and in the frontmatter path;
\* the inserted text is the place's template with {place} and {address} both
\* the place's name; and the address the frontmatter callback writes (field
\* enabled) is the place's name.
C4_PlaceBypassesGeocoding ==
    \A t \in Tasks :
        task[t].place # None =>
            /\ task[t].calls.geocode = 0
            /\ task[t].geocode = "none"
            /\ task[t].text # None =>
                   task[t].text[1] =
                       applyTemplate(task[t].place[1].template, NamedValues(settings, task[t]))
            /\ (task[t].wrote /\ settings.frontmatterFields.address) =>
                   frontmatter["address"] = <<task[t].place[1].name>>

C4_Witness ==
    \E t \in Tasks :
        /\ task[t].kind = "frontmatter"
        /\ task[t].place # None
        /\ task[t].place[1].name = "Work"
        /\ task[t].wrote
        /\ settings.frontmatterFields.address
        /\ frontmatter["address"] = <<"Work">>
\* ----------------------------------------------------------------------- C5
FrontmatterInsert(tk) == tk.kind = "frontmatter" /\ ~tk.update

\* The original statement of C5: an insert (update off) on a note whose
\* frontmatter had a location key, over after a fix was acquired, changed no
\* key and showed the existing-location notice.
C5_Original ==
    \A t \in Tasks :
        (FrontmatterInsert(task[t]) /\ task[t].pc = "done" /\ task[t].loc # None
            /\ "location" \in DOMAIN task[t].fm0) =>
                /\ frontmatter = task[t].fm0
                /\ HasNotice(task[t], ExistsNotice)

\* C5 (amended): an insert (update off) on a note whose location key has a
\* non-empty value never changes a frontmatter key, and when it is over after
\* a fix was acquired it has shown the existing-location notice, once, with
\* the progress notice hidden; the notice is shown at no earlier step.
C5_InsertRefusedOnExistingLocation ==
    \A t \in Tasks :
        (FrontmatterInsert(task[t]) /\ t <= running /\ Truthy(task[t].fm0, "location")) =>
            /\ frontmatter = task[t].fm0
            /\ ~task[t].wrote
            /\ (task[t].pc = "done" /\ task[t].loc # None) =>
                   /\ Count(task[t].notices, ExistsNotice) = 1
                   /\ task[t].progress = "hidden"
            /\ HasNotice(task[t], ExistsNotice) => task[t].pc = "done"

C5_Witness ==
    \E t \in Tasks :
        /\ FrontmatterInsert(task[t])
        /\ Truthy(task[t].fm0, "location")
        /\ settings.frontmatterFields.location
        /\ settings.frontmatterFields.datetime
        /\ task[t].weather # None
        /\ task[t].pc = "done"
        /\ HasNotice(task[t], ExistsNotice)

\* ----------------------------------------------------------------------- C6
FrontmatterUpdate(tk) == tk.kind = "frontmatter" /\ tk.update

\* The pair the callback assigns: each coordinate through toFixed(6) and
\* parseFloat.
RoundedPair(location) ==
    <<parseFloatFixed6(location.latitude), parseFloatFixed6(location.longitude)>>

\* The original statement of C6 (taking the pair as the callback rounds it):
\* an update on a note that had a location key, over after a fix was
\* acquired, left the acquired pair in the location key, whatever the
\* frontmatter field settings.
C6_Original ==
    \A t \in Tasks :
        (FrontmatterUpdate(task[t]) /\ task[t].pc = "done" /\ task[t].loc # None
            /\ "location" \in DOMAIN task[t].fm0) =>
                /\ "location" \in DOMAIN frontmatter
                /\ frontmatter["location"] = RoundedPair(task[t].loc[1])

SameKey(f, g, key) ==
    /\ key \in DOMAIN f <=> key \in DOMAIN g
    /\ key \in DOMAIN f => f[key] = g[key]

\* C6 (amended): an update on a note that had a location key, over after a
\* fix was acquired, has run the write; with "include location" enabled the
\* location key holds the acquired pair, each coordinate rounded to six
\* decimals, whatever the other three field settings are; with "include
\* location" disabled the location key is as it was.
C6_UpdateOverwritesLocation ==
    \A t \in Tasks :
        (FrontmatterUpdate(task[t]) /\ t <= running /\ task[t].pc = "done"
            /\ task[t].loc # None /\ "location" \in DOMAIN task[t].fm0) =>
                /\ task[t].wrote
                /\ HasNotice(task[t], UpdatedNotice)
                /\ ~HasNotice(task[t], ExistsNotice)
                /\ settings.frontmatterFields.location =>
                       frontmatter["location"] = RoundedPair(task[t].loc[1])
                /\ ~settings.frontmatterFields.location =>
                       SameKey(frontmatter, task[t].fm0, "location")

C6_Witness ==
    \E t \in Tasks :
        /\ FrontmatterUpdate(task[t])
        /\ task[t].pc = "done"
        /\ Truthy(task[t].fm0, "location")
        /\ settings.frontmatterFields.location
        /\ ~settings.frontmatterFields.datetime
        /\ frontmatter["location"] = <<"0.001", "0">>
        /\ frontmatter["location"] # task[t].fm0["location"]

\* ----------------------------------------------------------------------- C7
\* The weather values getWeather can build from the answers.
PossibleWeather ==
    {Some([temperature |-> mathRound(r.temperature), unit |-> u,
           description |-> weatherDescription(r.weathercode)]) :
        r \in WeatherResponses, u \in {CelsiusSymbol, FahrenheitSymbol}}

NoAddressIn(text) == \A r \in GeocodeResponses : r.display \notin Range(text)

NoWeatherIn(text) ==
    \A w \in PossibleWeather :
        WeatherStr(w) \notin Range(text) /\ TempStr(w) \notin Range(text)

\* The task with the values of its failed lookups absent.
Degraded(tk) ==
    [tk EXCEPT !.address = IF tk.geocode = "failed" THEN None ELSE @,
               !.weather = IF tk.wx = "failed" THEN None ELSE @]

\* C7: an action that acquired a fix and is over, with its address lookup or
\* its weather lookup failed (either or both), did not show "Failed to get
\* location".  An insert put its text into the editor and showed "Location
\* inserted"; the text is the layout's text without the failed value (no
\* address text, no weather text).  A frontmatter action showed its closing
\* notice and, unless refused for an existing location, ran the write, which
\* left the key of each failed lookup as it was.
C7_EnrichmentFailureNotFatal ==
    \A t \in Tasks :
        (task[t].pc = "done" /\ task[t].loc # None
            /\ (task[t].geocode = "failed" \/ task[t].wx = "failed")) =>
                /\ ~HasNotice(task[t], FailedNotice)
                /\ task[t].progress = "hidden"
                /\ task[t].kind \in {"insert", "ribbon"} =>
                       /\ task[t].text # None
                       /\ editor = <<task[t].text[1]>>
                       /\ HasNotice(task[t], InsertedNotice)
                       /\ task[t].text[1] = renderLocation(settings, Degraded(task[t]))
                       /\ task[t].geocode = "failed" => NoAddressIn(task[t].text[1])
                       /\ task[t].wx = "failed" => NoWeatherIn(task[t].text[1])
                /\ task[t].kind = "frontmatter" =>
                       /\ HasNotice(task[t], IF task[t].update THEN UpdatedNotice ELSE AddedNotice)
                       /\ ~Refused(task[t].fm0, task[t]) =>
                              /\ task[t].wrote
                              /\ task[t].geocode = "failed" =>
                                     SameKey(frontmatter, task[t].fm0, "address")
                              /\ task[t].wx = "failed" =>
                                     SameKey(frontmatter, task[t].fm0, "weather")

C7_Witness ==
    \E t \in Tasks :
        /\ task[t].kind = "insert"
        /\ task[t].pc = "done"
        /\ task[t].geocode = "failed"
        /\ task[t].wx = "failed"
        /\ task[t].layout = "custom"
        /\ task[t].text # None

\* A second case of C7: the frontmatter write after both lookups failed.
C7_WitnessFrontmatter ==
    \E t \in Tasks :
        /\ task[t].kind = "frontmatter"
        /\ task[t].pc = "done"
        /\ task[t].geocode = "failed"
        /\ task[t].wx = "failed"
        /\ task[t].wrote

\* ----------------------------------------------------------------------- C8
HasTemplate(st, id) ==
    \E i \in 1..Len(st.customTemplates) : st.customTemplates[i].id = id

TemplateWithId(st, id) ==
    st.customTemplates[CHOOSE i \in 1..Len(st.customTemplates) : st.customTemplates[i].id = id]

\* The precedence of C8.
ExpectedLayout(st, tk) ==
    IF tk.place # None THEN "place"
    ELSE IF HasTemplate(st, tk.formatId) THEN "custom"
    ELSE IF tk.formatId \in {"coords", "compact"} THEN tk.formatId
    ELSE "full"

\* C8: an inserted text was rendered by the chosen place's template if a
\* place was chosen, whatever the format; else by the custom template whose
\* id is the selected format id (the default format for the ribbon, the
\* picked item for the command); else by the coords or the compact layout if
\* the id names it; else, for "full" and for an id that names nothing, by the
\* full layout.
C8_TemplatePrecedence ==
    \A t \in Tasks :
        task[t].text # None =>
            LET tk == task[t]
                text == task[t].text[1]
            IN  /\ tk.layout = ExpectedLayout(settings, tk)
                /\ (tk.place = None /\ tk.kind = "ribbon") => tk.formatId = settings.format
                /\ (tk.place = None /\ tk.kind = "insert") =>
                       tk.formatId \in Range(FormatOptions(settings))
                /\ tk.layout = "place" =>
                       text = RenderPlace(settings, tk.loc[1], tk.place[1], tk.weather)
                /\ tk.layout = "custom" =>
                       text = RenderCustom(settings, tk.loc[1],
                                  TemplateWithId(settings, tk.formatId), tk.address, tk.weather)
                /\ tk.layout = "coords" => text = RenderCoords(settings, tk.loc[1], tk.weather)
                /\ tk.layout = "compact" =>
                       text = RenderCompact(settings, tk.loc[1], tk.address, tk.weather)
                /\ tk.layout = "full" =>
                       text = RenderFull(settings, tk.loc[1], tk.address, tk.weather)

C8_Witness ==
    \E t \in Tasks :
        /\ task[t].text # None
        /\ task[t].place = None
        /\ task[t].formatId = StaleFormatId
        /\ task[t].layout = "full"

\* ----------------------------------------------------------------------- C9
Rendering(tk) == tk.kind \in {"insert", "ribbon"}

\* The template the text is rendered by, if it is not a built-in layout.
ActiveTemplateHasWeather(tk) ==
    IF tk.place # None THEN testWeatherPlaceholder(tk.place[1].template)
    ELSE tk.custom # None /\ testWeatherPlaceholder(tk.custom[1].template)

\* The original statement of C9: in every render path, the place's template
\* included, the weather request was issued if and only if the active
\* template has {weather} or {temp} or "include weather" is enabled.
C9_Original ==
    \A t \in Tasks :
        (Rendering(task[t]) /\ task[t].text # None) =>
            (task[t].calls.weather > 0 <=>
                (ActiveTemplateHasWeather(task[t]) \/ settings.includeWeather))

\* C9 (amended): rendering by a format id (no place chosen), the weather
\* request is issued if and only if "include weather" is enabled or the
\* custom template found for the id has {weather} or {temp}; rendering by a
\* chosen place's template, it is issued if and only if that template has
\* {weather} or {temp}, whether or not "include weather" is enabled.
C9_WeatherRequestCondition ==
    \A t \in Tasks :
        Rendering(task[t]) =>
            LET tk == task[t]
                wanted == IF tk.place # None
                          THEN testWeatherPlaceholder(tk.place[1].template)
                          ELSE settings.includeWeather
                                   \/ (HasTemplate(settings, tk.formatId)
                                       /\ testWeatherPlaceholder(
                                              TemplateWithId(settings, tk.formatId).template))
            IN  /\ tk.calls.weather > 0 => wanted
                /\ (tk.text # None /\ wanted) => tk.calls.weather = 1

C9_Witness ==
    \E t \in Tasks :
        /\ Rendering(task[t])
        /\ task[t].place # None
        /\ settings.includeWeather
        /\ task[t].calls.weather = 0
        /\ task[t].text # None

\* A second case of C9: a custom template with {temp}, the setting off.
C9_WitnessCustom ==
    \E t \in Tasks :
        /\ Rendering(task[t])
        /\ task[t].place = None
        /\ task[t].layout = "custom"
        /\ ~settings.includeWeather
        /\ task[t].calls.weather = 1
        /\ task[t].text # None

\* ---------------------------------------------------------------------- C10
\* /\{(address|city|country)\}/.test(template): the template names an address
\* value.
testAddressPlaceholder(tpl) ==
    \E i \in 1..Len(tpl) :
        TokenAt(tpl, i) /\ TokenKey(tpl, i) \in {"address", "city", "country"}

\* C10: with no place chosen, no reverse-geocoding request is issued for the
\* coords format, nor for a custom template that has none of {address},
\* {city}, {country}.
C10_AddressOnlyWhenRequired ==
    \A t \in Tasks :
        (Rendering(task[t]) /\ task[t].place = None /\ task[t].calls.geocode > 0) =>
            /\ task[t].formatId # "coords"
            /\ task[t].custom # None => testAddressPlaceholder(task[t].custom[1].template)
\* ---------------------------------------------------------------------- C11
\* The atoms i..j of tpl are a token: "{", word atoms only, "}".
IsToken(tpl, i, j) ==
    /\ tpl[i] = "{"
    /\ tpl[j] = "}"
    /\ j > i + 1
    /\ \A k \in (i + 1)..(j - 1) : IsWord(tpl[k])

\* What the atom i of tpl becomes: the value of the token that starts there
\* (empty if values has no such key), nothing if it lies inside a token, and
\* itself otherwise.
Piece(tpl, values, i) ==
    IF \E j \in i..Len(tpl) : IsToken(tpl, i, j)
    THEN LET j == CHOOSE j \in i..Len(tpl) : IsToken(tpl, i, j)
             key == Concat(tpl, i + 1, j - 1)
         IN  IF key \in DOMAIN values THEN values[key] ELSE <<>>
    ELSE IF \E h \in 1..(i - 1), j \in i..Len(tpl) : IsToken(tpl, h, j)
         THEN <<>>
         ELSE <<tpl[i]>>

RECURSIVE Flatten(_)
Flatten(seqs) == IF seqs = <<>> THEN <<>> ELSE Head(seqs) \o Flatten(Tail(seqs))

\* C11: applyTemplate returns the template with every token {identifier}
\* replaced by values[identifier] if values has that key and by the empty
\* string for every other identifier, and with everything outside the tokens
\* as it was; for "{a}{b}" and {a: "x"} it returns "x".
C11_ApplyTemplateSubstitutes ==
    (call.fn = "applyTemplate" /\ call.result # None) =>
        /\ call.result[1] =
               Flatten([i \in 1..Len(call.template) |->
                           Piece(call.template, call.values, i)])
        /\ (call.template = <<"{", "a", "}", "{", "b", "}">>
               /\ call.values = [k \in {"a"} |-> <<"x">>]) =>
                   call.result[1] = <<"x">>
\* ---------------------------------------------------------------------- C12
\* The distance of a place from a fix, and whether it is within the radius.
DistanceFrom(location, place) ==
    haversineDistance(location.latitude, location.longitude,
                      place.latitude, place.longitude)

InRegion(location, place) ==
    /\ ~IsNaN(place.radius)
    /\ DistanceFrom(location, place) <= MetresToMicrons(place.radius)

MatchedPlaces(matches) == [i \in 1..Len(matches) |-> matches[i].place]

\* C12: findMatchingPlaces returns the saved places whose distance from the
\* fix is at most their radius, each as often as it is saved and with that
\* distance, and no other: a place centred at the fix with a radius > 0 is in
\* the result, a place farther than its radius is not, and without saved
\* places the result is empty.
C12_MatchesAreThePlacesInRegion ==
    (call.fn = "findMatchingPlaces" /\ call.result # None) =>
        LET saved == call.savedPlaces
            fix == call.location
            found == call.result[1]
        IN  /\ \A p \in Range(saved) \cup Range(MatchedPlaces(found)) :
                   Count(MatchedPlaces(found), p) =
                       IF InRegion(fix, p) THEN Count(saved, p) ELSE 0
            /\ \A i \in 1..Len(found) :
                   found[i].distance = DistanceFrom(fix, found[i].place)
            /\ \A i \in 1..Len(saved) :
                   /\ (saved[i].latitude = fix.latitude
                          /\ saved[i].longitude = fix.longitude
                          /\ ~IsNaN(saved[i].radius) /\ saved[i].radius > 0) =>
                              saved[i] \in Range(MatchedPlaces(found))
                   /\ (~IsNaN(saved[i].radius)
                          /\ DistanceFrom(fix, saved[i]) > MetresToMicrons(saved[i].radius)) =>
                              saved[i] \notin Range(MatchedPlaces(found))
            /\ saved = <<>> => found = <<>>

C12_Witness ==
    /\ call.fn = "findMatchingPlaces"
    /\ call.result # None
    /\ Len(call.savedPlaces) = 2
    /\ Len(call.result[1]) = 1
    /\ call.result[1][1].place.latitude = call.location.latitude
    /\ call.result[1][1].place.radius = 200
    /\ call.savedPlaces[1].radius = 200
    /\ call.savedPlaces[1].latitude = 30000

\* ---------------------------------------------------------------------- C13
\* C13: the result of findMatchingPlaces is in ascending order of distance:
\* of two consecutive results the earlier is not the farther one.
C13_MatchesNearestFirst ==
    (call.fn = "findMatchingPlaces" /\ call.result # None) =>
        \A i \in 1..(Len(call.result[1]) - 1) :
            /\ call.result[1][i].distance <= call.result[1][i + 1].distance
            /\ DistanceFrom(call.location, call.result[1][i].place)
                   <= DistanceFrom(call.location, call.result[1][i + 1].place)

\* The farther place is saved first and returned second.
C13_Witness ==
    /\ call.fn = "findMatchingPlaces"
    /\ call.result # None
    /\ Len(call.result[1]) = 2
    /\ call.result[1][1].distance < call.result[1][2].distance
    /\ call.savedPlaces[1] = call.result[1][2].place
    /\ call.savedPlaces[2] = call.result[1][1].place
\* ---------------------------------------------------------------------- C20
\* C20: findMatchingPlaces returns (it does not crash) and returns no place
\* whose radius is NaN, negative or zero, whatever the fix, the place's own
\* centre included.
C20_NoMatchWithoutPositiveRadius ==
    (call.fn = "findMatchingPlaces" /\ call.result # None) =>
        \A i \in 1..Len(call.result[1]) :
            /\ ~IsNaN(call.result[1][i].place.radius)
            /\ call.result[1][i].place.radius > 0
\* ---------------------------------------------------------------------- C14
\* The actions that run resolvePlace after getLocation.
ResolvesPlace(tk) == tk.kind \in {"insert", "ribbon", "frontmatter"}

ChooseDetectedLocation(t) ==
    Becomes(t, AfterPlace([Ctx(t) EXCEPT !.tk = [task[t] EXCEPT !.place = None]]))

\* C15: closing the place picker without a pick is the step that picking "Use
\* detected location" is: the action goes on without a place, to its end, and
\* no failure is reported.
C15_DismissalIsUseDetected ==
    [][\A t \in Tasks : DismissPlacePicker(t) => ChooseDetectedLocation(t)]_vars
\* ---------------------------------------------------------------------- C16
\* C16: in one action each external request is made at most once: the device
\* request, the IP lookup, the reverse-geocoding request and the weather
\* request; a request that failed is not made again.
C16_EachRequestAtMostOnce ==
    \A t \in Tasks :
        /\ task[t].calls.gps <= 1
        /\ task[t].calls.ip <= 1
        /\ task[t].calls.geocode <= 1
        /\ task[t].calls.weather <= 1
        /\ (task[t].gps \in GpsErrors \ {"unsupported"}) => (task[t].calls.gps = 1)
        /\ (task[t].ip \in IpErrors) => (task[t].calls.ip = 1 /\ task[t].pc = "done")
        /\ (task[t].geocode = "failed") =>
               (task[t].calls.geocode = 1 /\ task[t].pc # "geocode")
        /\ (task[t].wx = "failed") =>
               (task[t].calls.weather = 1 /\ task[t].pc # "weather")

\* All four requests were made, and the last two failed.
C16_Witness ==
    \E t \in Tasks :
        /\ task[t].calls = [gps |-> 1, ip |-> 1, geocode |-> 1, weather |-> 1]
        /\ task[t].geocode = "failed"
        /\ task[t].wx = "failed"
        /\ task[t].pc = "done"
\* ---------------------------------------------------------------------- C17
\* The lines of a text: its tokens between the line breaks.
RECURSIVE SplitLines(_)
SplitLines(text) ==
    IF "\n" \notin Range(text) THEN <<text>>
    ELSE LET i == CHOOSE i \in 1..Len(text) :
                      text[i] = "\n" /\ \A h \in 1..(i - 1) : text[h] # "\n"
         IN  <<SubSeq(text, 1, i - 1)>> \o SplitLines(SubSeq(text, i + 1, Len(text)))

\* C17: a text in the full layout (format "full", or an id that names
\* nothing) has these lines in this order: the address, if and only if the
\* address lookup succeeded; the coordinates; the timestamp, if and only if
\* "include timestamp" is enabled; the weather, if and only if the weather
\* lookup succeeded; and the map link, always and last.
C17_FullLayoutLines ==
    \A t \in Tasks :
        (task[t].text # None /\ task[t].layout = "full") =>
            LET tk == task[t]
                lines == SplitLines(tk.text[1])
                n == Len(lines)
                a == IF tk.geocode = "ok" THEN 1 ELSE 0
                s == IF settings.includeTimestamp THEN 1 ELSE 0
                w == IF tk.wx = "ok" THEN 1 ELSE 0
            IN  /\ \/ tk.formatId = "full"
                   \/ /\ tk.formatId \notin Range(BUILTIN_FORMATS)
                      /\ ~HasTemplate(settings, tk.formatId)
                /\ n = a + 1 + s + w + 1
                /\ (a = 1) => (lines[1] = <<tk.address[1].display>>)
                /\ lines[a + 1] = <<Coords(tk.loc[1])>> \o Approx(tk.loc[1])
                /\ (s = 1) => (lines[a + 2] = <<formatDateTime.datetime>>)
                /\ (w = 1) => (lines[a + s + 2] = <<WeatherStr(tk.weather)>>)
                /\ lines[n] = <<MapLink(settings, tk.loc[1])>>

\* All five lines, for the id that names nothing.
C17_Witness ==
    \E t \in Tasks :
        /\ task[t].text # None
        /\ task[t].layout = "full"
        /\ task[t].formatId = StaleFormatId
        /\ Len(SplitLines(task[t].text[1])) = 5
\* ---------------------------------------------------------------------- C18
\* The fix (52.2297, 21.0122).
WarsawFix ==
    [latitude |-> 522297000, longitude |-> 210122000, accuracy |-> 10,
     isApproximate |-> FALSE]

\* C18: a text in the coords layout is the coordinate string "lat, lon" with
\* six decimals (then " (approximate)" for an approximate fix), then the
\* separator and the timestamp if and only if "include timestamp" is enabled,
\* then the separator and the weather string if and only if the weather
\* lookup succeeded.  With a fix from the device and both settings off it is
\* the coordinate string alone, and no lookup was made; for (52.2297,
\* 21.0122) that string is "52.229700, 21.012200".
C18_CoordsLayout ==
    \A t \in Tasks :
        (task[t].text # None /\ task[t].layout = "coords") =>
            LET tk == task[t]
                text == tk.text[1]
                a == IF tk.loc[1].isApproximate THEN 1 ELSE 0
                s == IF settings.includeTimestamp THEN 2 ELSE 0
                w == IF tk.wx = "ok" THEN 2 ELSE 0
            IN  /\ tk.formatId = "coords"
                /\ Len(text) = 1 + a + s + w
                /\ text[1] = toFixed6(tk.loc[1].latitude) \o ", "
                                 \o toFixed6(tk.loc[1].longitude)
                /\ (tk.loc[1].latitude = 10004) => (text[1] = "0.001000, 0.000000")
                /\ (tk.loc[1].latitude = -70007) => (text[1] = "-0.007001, 0.000000")
                /\ (a = 1) => (text[2] = ApproxSuffix)
                /\ (s = 2) => (text[a + 2] = Dash /\ text[a + 3] = formatDateTime.datetime)
                /\ (w = 2) => (text[a + s + 2] = Dash
                                  /\ text[a + s + 3] = WeatherStr(tk.weather))
                /\ (tk.wx = "ok") <=> (tk.weather # None)
                /\ (~settings.includeWeather) => (tk.calls.weather = 0 /\ w = 0)
                /\ tk.calls.geocode = 0
                /\ RenderCoords([settings EXCEPT !.includeTimestamp = FALSE],
                                WarsawFix, None) = <<"52.229700, 21.012200">>

\* A device fix, both settings off: the coordinate string alone.
C18_Witness ==
    \E t \in Tasks :
        /\ task[t].layout = "coords"
        /\ task[t].gps = "ok"
        /\ ~settings.includeTimestamp
        /\ ~settings.includeWeather
        /\ task[t].text = <<<<"0.001000, 0.000000">>>>
\* ---------------------------------------------------------------------- C19
\* C19: once the settings tab has been used (opened, a format selected, a
\* template added or deleted, in any order), the default format is "full",
\* "compact", "coords" or the id of a template that exists; and right after
\* the template that was the default format is deleted, it is "full".
C19_DefaultFormatIsValid ==
    (tab.last.op # "none") =>
        /\ \/ settings.format \in {"full", "compact", "coords"}
           \/ \E i \in 1..Len(settings.customTemplates) :
                  settings.customTemplates[i].id = settings.format
        /\ (tab.last.op = "delete" /\ tab.last.wasDefault) => (settings.format = "full")

\* The default format was the second template, which has just been deleted.
C19_Witness ==
    /\ tab.last.op = "delete"
    /\ tab.last.wasDefault
    /\ tab.last.id = "4e5f6a7b"
    /\ Len(settings.customTemplates) = 1
    /\ settings.format = "full"
\* ---------------------------------------------------------------------- C21
\* C21: getWeather returns a result for every weather code.  Its description
\* is the table's entry for a code the table holds (95 gives "Thunderstorm",
\* 0 gives "Clear") and "Unknown" for any other code (9999 for one).
C21_WeatherCodeDescription ==
    (call.fn = "getWeather" /\ call.result # None) =>
        LET code == call.response.weathercode
            description == call.result[1].description
        IN  /\ (code = 95) => (description = "Thunderstorm")
            /\ (code = 0) => (description = "Clear")
            /\ (code = 9999) => (description = "Unknown")
            /\ (code \in DOMAIN WEATHER_CODES) => (description = WEATHER_CODES[code])
            /\ (code \notin DOMAIN WEATHER_CODES) => (description = "Unknown")

\* The code 9999 has been answered with a description.
C21_Witness ==
    /\ call.fn = "getWeather"
    /\ call.response.weathercode = 9999
    /\ call.result # None
    /\ call.result[1].description = "Unknown"
\* ---------------------------------------------------------------------- C22
\* The terminal outcomes: the text is in the editor, processFrontMatter has
\* run, or the notice "Failed to get location" is up.
TerminalOutcome(tk) ==
    \/ tk.text # None
    \/ tk.kind = "frontmatter" /\ (tk.wrote \/ HasNotice(tk, ExistsNotice))
    \/ HasNotice(tk, FailedNotice)

\* C22: with every request answered and every prompt acted on, an action
\* that shows the progress notice reaches a terminal outcome, with the
\* progress notice hidden.
C22_EveryActionEnds ==
    \A t \in Tasks :
        (task[t].kind \in {"insert", "ribbon", "frontmatter"} /\ task[t].progress = "shown")
            ~> (TerminalOutcome(task[t]) /\ task[t].progress = "hidden")
\* ---------------------------------------------------------------------- C23
\* The requests of a task that have been sent and not answered.
Outstanding(tk) ==
    {r \in {"gps", "ip", "geocode", "wx"} : tk[r] = "pending"}

\* The place has been settled: the fix is there and no picker is waiting.
PlaceSettled(tk) ==
    /\ tk.loc # None
    /\ tk.pc \notin {"gps", "ip", "placePicker", "abandoned"}

\* C23: the steps of one action follow one another.  Places are matched and
\* offered only with the fix in hand; the address is asked for only with the
\* place settled; the weather is asked for only with the address lookup over
\* or left out; the text is inserted, or the frontmatter written, only with
\* both lookups over or left out; and an action never has two requests
\* outstanding.
C23_StepsAreSequential ==
    \A t \in Tasks :
        LET tk == task[t]
        IN  /\ Cardinality(Outstanding(tk)) <= 1
            /\ (tk.placeOptions # <<>> \/ tk.place # None \/ tk.pc = "placePicker")
                   => (tk.loc # None /\ Outstanding(tk) \cap {"gps", "ip"} = {})
            /\ (tk.calls.geocode > 0) => PlaceSettled(tk)
            /\ (tk.calls.weather > 0) => (PlaceSettled(tk) /\ tk.geocode # "pending")
            /\ (tk.text # None \/ tk.wrote \/ tk.pc = "processFrontMatter")
                   => (PlaceSettled(tk) /\ Outstanding(tk) = {})

\* An insertion that went through every step: a fix by IP after the device
\* failed, the place picker, the address, the weather, the text.
C23_Witness ==
    \E t \in Tasks :
        /\ task[t].kind = "insert"
        /\ task[t].calls = [gps |-> 1, ip |-> 1, geocode |-> 1, weather |-> 1]
        /\ task[t].placeOptions # <<>>
        /\ task[t].geocode = "ok"
        /\ task[t].wx = "ok"
        /\ task[t].text # None
\* ---------------------------------------------------------------------- C24
\* The symbol of the unit a weather request named in its URL.
SymbolOf(unit) == IF unit = "fahrenheit" THEN FahrenheitSymbol ELSE CelsiusSymbol

\* C24: the unit symbol of a WeatherResult is the symbol of the unit its
\* request asked for, whatever happens to the settings while the request is
\* in flight.
C24_SymbolMatchesRequestedUnit ==
    \A t \in Tasks :
        (task[t].weather # None) => (task[t].weather[1].unit = SymbolOf(task[t].wxUnit))
\* ---------------------------------------------------------------------- C25
\* C25: whatever places are saved from a fix, added, edited and deleted, every
\* saved place has a radius above zero; and a radius text that is no number,
\* or a number not above zero, changes no setting and nothing is saved.
C25_RadiusStaysPositive ==
    /\ \A i \in 1..Len(settings.savedPlaces) :
           /\ ~IsNaN(settings.savedPlaces[i].radius)
           /\ settings.savedPlaces[i].radius > 0
    /\ (tab.last.op = "radius" /\ tab.last.id = "no number above zero")
           => (~tab.last.changed /\ ~tab.last.saved)

\* The radius of the place saved from a fix was edited, and then a text that
\* is not a number was typed into it.
C25_Witness ==
    /\ tab.last.op = "radius"
    /\ tab.last.id = "no number above zero"
    /\ ~tab.last.saved
    /\ \E i \in 1..Len(settings.savedPlaces) :
           /\ settings.savedPlaces[i].name = "Gym"
           /\ settings.savedPlaces[i].radius = 300
\* ---------------------------------------------------------------------- C26
\* No two entries of the sequence have the same id.
UniqueIds(seq) ==
    \A i \in 1..Len(seq) : \A j \in 1..Len(seq) : (i # j) => (seq[i].id # seq[j].id)

\* C26: whatever templates and places are added and saved, the ids are
\* unique among the custom templates and unique among the saved places.
C26_GeneratedIdsAreUnique ==
    /\ UniqueIds(settings.customTemplates)
    /\ UniqueIds(settings.savedPlaces)
\* ---------------------------------------------------------------------- C27
\* C27: a frontmatter action changes no key of the note but location,
\* address, datetime and weather, and each of these only with its setting
\* enabled; address and weather, moreover, only with a value obtained.  Every
\* other key, and every key whose setting is disabled, is as it was when the
\* action began.
C27_FrontmatterFrame ==
    \A t \in Tasks :
        (task[t].kind = "frontmatter") =>
            \A key \in (DOMAIN frontmatter) \cup (DOMAIN task[t].fm0) :
                ~SameKey(frontmatter, task[t].fm0, key) =>
                    /\ key \in {"location", "address", "datetime", "weather"}
                    /\ settings.frontmatterFields[key]
                    /\ (key = "address") => (task[t].address # None)
                    /\ (key = "weather") => (task[t].weather # None)
                    /\ task[t].wrote

\* A write with the datetime setting disabled and the weather lookup failed:
\* the location is new, the earlier datetime and weather and the tags stay.
C27_Witness ==
    \E t \in Tasks :
        /\ task[t].kind = "frontmatter"
        /\ task[t].wrote
        /\ ~settings.frontmatterFields.datetime
        /\ settings.frontmatterFields.weather
        /\ task[t].weather = None
        /\ ~SameKey(frontmatter, task[t].fm0, "location")
        /\ "datetime" \in DOMAIN task[t].fm0
        /\ SameKey(frontmatter, task[t].fm0, "datetime")
        /\ SameKey(frontmatter, task[t].fm0, "weather")
        /\ SameKey(frontmatter, task[t].fm0, "tags")
\* ---------------------------------------------------------------------- C28
\* C28: a frontmatter action shows "Location added to frontmatter" or
\* "Location updated" only if the write was made; an insert refused because
\* the note has a location shows the notice of the existing location and no
\* other outcome notice.
C28_SuccessNoticeOnlyAfterWrite ==
    \A t \in Tasks :
        (task[t].kind = "frontmatter") =>
            /\ (HasNotice(task[t], AddedNotice) \/ HasNotice(task[t], UpdatedNotice))
                   => task[t].wrote
            /\ HasNotice(task[t], ExistsNotice)
                   => task[t].notices = <<ExistsNotice>>
\* ---------------------------------------------------------------------- C29
\* C29: an insert (update off) replaces no address, datetime or weather the
\* note already has, whatever the frontmatter field settings are and whether
\* or not the note has a location key.
C29_InsertKeepsExistingFields ==
    \A t \in Tasks :
        FrontmatterInsert(task[t]) =>
            \A key \in {"address", "datetime", "weather"} :
                (key \in DOMAIN task[t].fm0) => SameKey(frontmatter, task[t].fm0, key)
\* ---------------------------------------------------------------------- C30
\* C30: of two inserts (update off) that run at once on a note without a
\* location, with "include location" enabled, at most one makes the write; once
\* both have reached processFrontMatter, one has written and the other was
\* refused with the notice of the existing location, however their steps
\* interleave.
C30_OneInsertWins ==
    (FrontmatterInsert(task[1]) /\ FrontmatterInsert(task[2])) =>
        /\ ~(task[1].wrote /\ task[2].wrote)
        /\ (\A t \in Tasks : task[t].pc = "done" /\ task[t].loc # None) =>
               \E t \in Tasks : \E u \in Tasks \ {t} :
                   /\ task[t].wrote
                   /\ ~HasNotice(task[t], ExistsNotice)
                   /\ ~task[u].wrote
                   /\ HasNotice(task[u], ExistsNotice)
                   /\ frontmatter["location"] = RoundedPair(task[t].loc[1])

\* Both inserts began on the note without a location; the first wrote and the
\* second, with another fix, was refused.
C30_Witness ==
    /\ FrontmatterInsert(task[1]) /\ FrontmatterInsert(task[2])
    /\ task[1].pc = "done" /\ task[2].pc = "done"
    /\ "location" \notin DOMAIN task[1].fm0
    /\ "location" \notin DOMAIN task[2].fm0
    /\ task[1].wrote
    /\ ~task[2].wrote
    /\ HasNotice(task[2], ExistsNotice)
    /\ task[2].loc # None /\ task[2].loc # task[1].loc

====
